---- MODULE Spec2Model ----
(***************************************************************************)
(* A model of the Metal device backend of gfx                              *)
(* (src/backend/metal/src/device.rs): pipeline layout compilation,         *)
(* emulated descriptor set writes, vertex attribute remapping and the      *)
(* memory allocator's allocate / map / flush.                              *)
(*                                                                         *)
(* Each component has its own specification over the shared variables:     *)
(*   SpecLayout      create_pipeline_layout                                *)
(*   SpecDescriptors write_descriptor_sets on an emulated set              *)
(*   SpecPipeline    the vertex buffer part of create_graphics_pipeline    *)
(*   SpecMemory      allocate_memory, map_memory, flush                    *)
(* A call that panics (assert!, unimplemented!, expect, panic!) is         *)
(* recorded with status "panic" and returns nothing.                       *)
(***************************************************************************)
EXTENDS Integers, Sequences, FiniteSets, TLC

VARIABLES
    caps,        \* the device: PrivateCapabilities and Shared fields read by the calls
    pl_req,      \* create_pipeline_layout: the arguments of the pending call
    pl_res,      \* create_pipeline_layout: the outcome of the call
    ds_set,      \* the emulated descriptor set written to
    ds_req,      \* write_descriptor_sets: the write of the pending call
    ds_res,      \* write_descriptor_sets: the outcome of the call
    gp,          \* create_graphics_pipeline: the call in progress and its outcome
    mem,         \* the memory blocks that allocate_memory returned, by handle
    mm,          \* map_memory, flush_mapped_memory_ranges: the call and its outcome
    rq,          \* a query of requirements or of a footprint: its arguments
    rq_res,      \* the answer to the query
    flag,        \* the boolean of the fence (n::Fence)
    locks,       \* the thread that holds each mutex, or "free"
    th           \* per thread: the call it is in, where it stands, its locals

layout_vars == <<pl_req, pl_res>>
descriptor_vars == <<ds_set, ds_req, ds_res>>
memory_vars == <<mem, mm>>
query_vars == <<rq, rq_res>>
sync_vars == <<flag, locks, th>>
vars == <<caps, pl_req, pl_res, ds_set, ds_req, ds_res, gp, mem, mm, rq, rq_res,
          flag, locks, th>>

Max(a, b) == IF a >= b THEN a ELSE b

None == [kind |-> "None"]

(***************************************************************************)
(* The device.                                                             *)
(***************************************************************************)

\* PrivateCapabilities limits set by PhysicalDevice::new
MaxBuffersPerStage == 31
MaxSamplersPerStage == 16
MaxTexturesMac == 128
MaxTexturesOther == 31
BufferAlignmentMac == 256
BufferAlignmentOther == 64

\* the part of PhysicalDevice::new that derives the record from the probes
\* (is_mac, heaps: what supports_feature_set answers)
PrivateCapabilities(is_mac, heaps) ==
    [ resource_heaps         |-> heaps,
      argument_buffers       |-> FALSE,
      shared_textures        |-> ~is_mac,
      max_buffers_per_stage  |-> MaxBuffersPerStage,
      max_textures_per_stage |-> IF is_mac THEN MaxTexturesMac ELSE MaxTexturesOther,
      max_samplers_per_stage |-> MaxSamplersPerStage,
      buffer_alignment       |-> IF is_mac THEN BufferAlignmentMac ELSE BufferAlignmentOther ]

\* Shared::push_constants_buffer_id: PhysicalDevice::new asserts it is below
\* max_buffers_per_stage
PushConstantsBufferIds == {1, MaxBuffersPerStage - 1}

Devices ==
    { [ private_caps |-> PrivateCapabilities(m, h), push_constants_buffer_id |-> p ] :
        m \in BOOLEAN, h \in BOOLEAN, p \in PushConstantsBufferIds }

(***************************************************************************)
(* create_pipeline_layout                                                  *)
(***************************************************************************)

\* stage_infos: (stage bit, execution model), in the order the code walks them
stage_infos == << "Vertex", "Fragment", "Compute" >>
Stages == { stage_infos[i] : i \in 1..3 }

DescriptorTypes ==
    { "Sampler", "CombinedImageSampler", "SampledImage", "StorageImage",
      "UniformTexelBuffer", "StorageTexelBuffer", "UniformBuffer", "StorageBuffer",
      "UniformBufferDynamic", "UniformImageDynamic", "InputAttachment" }

\* !0, all bits set (the id of a resource kind a binding does not use): written
\* -1, its two's complement reading, since it is only ever compared for equality
NoId == -1
\* PUSH_CONSTANTS_DESC_SET = !0, PUSH_CONSTANTS_DESC_BINDING = 0
PUSH_CONSTANTS_DESC_SET == -1
PUSH_CONSTANTS_DESC_BINDING == 0

ZeroCounters == [ buffers |-> 0, textures |-> 0, samplers |-> 0 ]

ResourceBindingLocation(stage, set, binding) ==
    [ stage |-> stage, desc_set |-> set, binding |-> binding ]

\* HashMap::insert: the value of an existing key is replaced
Insert(map, key, value) == (key :> value) @@ map

EmptyMap == << >>

\* AssignSlots with a combined image-sampler that takes a texture slot only
AssignSlotsCombinedTextureOnly(ty, c) ==
    CASE ty \in {"UniformBuffer", "StorageBuffer"} ->
            [ ok |-> TRUE,
              res |-> [ buffer_id |-> c.buffers, texture_id |-> NoId, sampler_id |-> NoId ],
              counters |-> [ c EXCEPT !.buffers = @ + 1 ] ]
      [] ty \in {"SampledImage", "StorageImage", "UniformTexelBuffer",
                 "StorageTexelBuffer", "InputAttachment", "CombinedImageSampler"} ->
            [ ok |-> TRUE,
              res |-> [ buffer_id |-> NoId, texture_id |-> c.textures, sampler_id |-> NoId ],
              counters |-> [ c EXCEPT !.textures = @ + 1 ] ]
      [] ty = "Sampler" ->
            [ ok |-> TRUE,
              res |-> [ buffer_id |-> NoId, texture_id |-> NoId, sampler_id |-> c.samplers ],
              counters |-> [ c EXCEPT !.samplers = @ + 1 ] ]
      [] OTHER ->
            [ ok |-> FALSE, res |-> None, counters |-> c ]

\* the match on set_binding.ty: the ResourceBinding recorded and the counters after
\* it; "unimplemented" for the dynamic types
AssignSlots(ty, c) ==
    CASE ty \in {"UniformBuffer", "StorageBuffer"} ->
            [ ok |-> TRUE,
              res |-> [ buffer_id |-> c.buffers, texture_id |-> NoId, sampler_id |-> NoId ],
              counters |-> [ c EXCEPT !.buffers = @ + 1 ] ]
      [] ty \in {"SampledImage", "StorageImage", "UniformTexelBuffer",
                 "StorageTexelBuffer", "InputAttachment"} ->
            [ ok |-> TRUE,
              res |-> [ buffer_id |-> NoId, texture_id |-> c.textures, sampler_id |-> NoId ],
              counters |-> [ c EXCEPT !.textures = @ + 1 ] ]
      [] ty = "Sampler" ->
            [ ok |-> TRUE,
              res |-> [ buffer_id |-> NoId, texture_id |-> NoId, sampler_id |-> c.samplers ],
              counters |-> [ c EXCEPT !.samplers = @ + 1 ] ]
      [] ty = "CombinedImageSampler" ->
            [ ok |-> TRUE,
              res |-> [ buffer_id |-> NoId, texture_id |-> c.textures,
                        sampler_id |-> c.samplers ],
              counters |-> [ c EXCEPT !.textures = @ + 1, !.samplers = @ + 1 ] ]
      [] OTHER ->
            [ ok |-> FALSE, res |-> None, counters |-> c ]

\* the state of the walk: status, the per-stage counters, res_overrides, and the
\* record of every res_overrides.insert made so far (key, value, counters after)
WalkStart ==
    [ status |-> "ok",
      counters |-> [ s \in Stages |-> ZeroCounters ],
      res_overrides |-> EmptyMap,
      inserts |-> << >> ]

\* one pass of the stage loop for a binding of an emulated set layout
EmulatedBindingStage(w, set_index, set_binding, stage) ==
    IF w.status # "ok" \/ stage \notin set_binding.stage_flags THEN w
    ELSE LET a == AssignSlots(set_binding.ty, w.counters[stage])
             location == ResourceBindingLocation(stage, set_index, set_binding.binding)
         IN  IF ~a.ok THEN [ w EXCEPT !.status = "panic" ]
             ELSE IF set_binding.count # 1
             THEN [ w EXCEPT !.status = "panic", !.counters[stage] = a.counters ]
             ELSE [ w EXCEPT !.counters[stage] = a.counters,
                             !.res_overrides = Insert(@, location, a.res),
                             !.inserts = Append(@, [ key |-> location, res |-> a.res,
                                                     counters |-> a.counters ]) ]

\* one pass of the stage loop for an argument buffer set layout
ArgumentBufferStage(w, set_index, stage_flags, stage) ==
    IF w.status # "ok" \/ stage \notin stage_flags THEN w
    ELSE LET c == w.counters[stage]
             location == ResourceBindingLocation(stage, set_index, 0)
             res_binding == [ buffer_id |-> c.buffers, texture_id |-> NoId,
                              sampler_id |-> NoId ]
             after == [ c EXCEPT !.buffers = @ + 1 ]
         IN  [ w EXCEPT !.counters[stage] = after,
                        !.res_overrides = Insert(@, location, res_binding),
                        !.inserts = Append(@, [ key |-> location, res |-> res_binding,
                                                counters |-> after ]) ]

EmulatedBinding(w, set_index, set_binding) ==
    EmulatedBindingStage(
        EmulatedBindingStage(
            EmulatedBindingStage(w, set_index, set_binding, stage_infos[1]),
            set_index, set_binding, stage_infos[2]),
        set_index, set_binding, stage_infos[3])

\* the loop over the bindings lo..hi of an emulated set layout, taken as its
\* first half followed by its second half; a panic ends it
RECURSIVE EmulatedSetRange(_, _, _, _, _)
EmulatedSetRange(w, set_index, set_bindings, lo, hi) ==
    IF lo > hi THEN w
    ELSE IF lo = hi THEN EmulatedBinding(w, set_index, set_bindings[lo])
    ELSE LET mid == (lo + hi) \div 2
             first == EmulatedSetRange(w, set_index, set_bindings, lo, mid)
         IN  IF first.status = "ok"
             THEN EmulatedSetRange(first, set_index, set_bindings, mid + 1, hi)
             ELSE first

\* the loop over the bindings of an emulated set layout
EmulatedSet(w, set_index, set_bindings) ==
    EmulatedSetRange(w, set_index, set_bindings, 1, Len(set_bindings))

ArgumentBufferSet(w, set_index, stage_flags) ==
    ArgumentBufferStage(
        ArgumentBufferStage(
            ArgumentBufferStage(w, set_index, stage_flags, stage_infos[1]),
            set_index, stage_flags, stage_infos[2]),
        set_index, stage_flags, stage_infos[3])

\* the loop over set_layouts.into_iter().enumerate(): set_index counts from 0
RECURSIVE WalkSetLayouts(_, _, _)
WalkSetLayouts(w, set_layouts, i) ==
    IF i > Len(set_layouts) THEN w
    ELSE LET set_layout == set_layouts[i]
             next == IF set_layout.kind = "Emulated"
                     THEN EmulatedSet(w, i - 1, set_layout.bindings)
                     ELSE ArgumentBufferSet(w, i - 1, set_layout.stage_flags)
         IN  IF next.status = "ok"
             THEN WalkSetLayouts(next, set_layouts, i + 1)
             ELSE next

\* pc_limits: per stage, the largest range.end of the ranges naming the stage
RECURSIVE PcLimit(_, _, _)
PcLimit(push_constant_ranges, stage, i) ==
    IF i > Len(push_constant_ranges) THEN 0
    ELSE LET pcr == push_constant_ranges[i]
             rest == PcLimit(push_constant_ranges, stage, i + 1)
         IN  IF stage \in pcr.flags THEN Max(pcr.range_end, rest) ELSE rest

\* BuffersFit without the assertion against the push constant slot
BuffersFitStageLimitOnly(limit, counters, device) ==
    counters.buffers <= device.private_caps.max_buffers_per_stage

\* the assertion on the stage's buffer counter
BuffersFit(limit, counters, device) ==
    IF limit # 0
    THEN counters.buffers < device.push_constants_buffer_id
    ELSE counters.buffers <= device.private_caps.max_buffers_per_stage

\* TexturesAndSamplersFit without the assertion on the samplers
TexturesFit(counters, device) ==
    counters.textures <= device.private_caps.max_textures_per_stage

\* "make sure we fit the limits"
TexturesAndSamplersFit(counters, device) ==
    /\ counters.textures <= device.private_caps.max_textures_per_stage
    /\ counters.samplers <= device.private_caps.max_samplers_per_stage

\* one pass of the final loop over the stages: the push constant override and the
\* assertions
PushConstantsStage(w, push_constant_ranges, device, stage) ==
    IF w.status # "ok" THEN w
    ELSE LET limit == PcLimit(push_constant_ranges, stage, 1)
             location == ResourceBindingLocation(stage, PUSH_CONSTANTS_DESC_SET,
                                                 PUSH_CONSTANTS_DESC_BINDING)
             res == [ buffer_id |-> device.push_constants_buffer_id,
                      texture_id |-> NoId, sampler_id |-> NoId ]
             w1 == IF limit # 0
                   THEN [ w EXCEPT !.res_overrides = Insert(@, location, res) ]
                   ELSE w
         IN  IF /\ BuffersFit(limit, w.counters[stage], device)
                /\ TexturesAndSamplersFit(w.counters[stage], device)
             THEN w1
             ELSE [ w1 EXCEPT !.status = "panic" ]

\* PipelineLayout with the buffer counter of the wrong stage
PipelineLayoutOfFragmentStage(w) ==
    [ attribute_buffer_index |-> w.counters[stage_infos[2]].buffers,
      res_overrides |-> w.res_overrides ]

\* n::PipelineLayout { attribute_buffer_index, res_overrides }
PipelineLayout(w) ==
    [ attribute_buffer_index |-> w.counters[stage_infos[1]].buffers,
      res_overrides |-> w.res_overrides ]

\* the whole call. `walk` is the state in which the walk over the set layouts
\* ended, kept for the properties of the walk itself; nothing is returned when
\* the walk or an assertion of the final loop panics
create_pipeline_layout(device, set_layouts, push_constant_ranges) ==
    LET walked == WalkSetLayouts(WalkStart, set_layouts, 1)
        done == PushConstantsStage(
                    PushConstantsStage(
                        PushConstantsStage(walked, push_constant_ranges, device,
                                           stage_infos[1]),
                        push_constant_ranges, device, stage_infos[2]),
                    push_constant_ranges, device, stage_infos[3])
    IN  [ status |-> done.status,
          layout |-> IF done.status = "ok" THEN PipelineLayout(done) ELSE None,
          walk |-> walked ]

(***************************************************************************)
(* The calls of create_pipeline_layout that are explored.                  *)
(***************************************************************************)

\* binding numbers run over 0..MaxBinding, array counts over 1..MaxCount
MaxBinding == 1
MaxCount == 2

StageFlagSets == SUBSET Stages

DescriptorSetLayoutBinding(binding, ty, count, stage_flags) ==
    [ binding |-> binding, ty |-> ty, count |-> count, stage_flags |-> stage_flags ]

Emulated(set_bindings) == [ kind |-> "Emulated", bindings |-> set_bindings ]
ArgumentBuffer(stage_flags) == [ kind |-> "ArgumentBuffer", stage_flags |-> stage_flags ]

\* every binding there is, within the bounds
AllBindings ==
    { DescriptorSetLayoutBinding(b, ty, n, f) :
        b \in 0..MaxBinding, ty \in DescriptorTypes, n \in 1..MaxCount, f \in StageFlagSets }

\* one type per arm of the match, and three stage masks, for the layouts with
\* several bindings
CoreTypes == { "UniformBuffer", "SampledImage", "Sampler", "CombinedImageSampler" }
CoreFlags == { {"Vertex"}, {"Fragment"}, Stages }
CoreBindings ==
    { DescriptorSetLayoutBinding(b, ty, 1, f) :
        b \in 0..MaxBinding, ty \in CoreTypes, f \in CoreFlags }
CoreSetLayouts ==
    { Emulated(<<b>>) : b \in CoreBindings } \cup { ArgumentBuffer(f) : f \in CoreFlags }

\* n bindings of one type and one stage mask, numbered 0..n-1
Run(ty, stage_flags, n) ==
    Emulated([ i \in 1..n |-> DescriptorSetLayoutBinding(i - 1, ty, 1, stage_flags) ])

\* the lengths at which a counter of the type's category reaches or passes a limit
\* of the device (buffers: the push constant slot and max_buffers_per_stage)
RunLengths(ty) ==
    CASE ty = "UniformBuffer" ->
            { MaxBuffersPerStage - 2, MaxBuffersPerStage - 1,
              MaxBuffersPerStage, MaxBuffersPerStage + 1 }
      [] ty = "SampledImage" ->
            { MaxTexturesOther, MaxTexturesOther + 1, MaxTexturesMac, MaxTexturesMac + 1 }
      [] OTHER ->
            { MaxSamplersPerStage, MaxSamplersPerStage + 1 }

Runs == UNION { { Run(ty, f, n) : f \in CoreFlags, n \in RunLengths(ty) } : ty \in CoreTypes }

SetLayoutLists ==
    { <<Emulated(<<b>>)>> : b \in AllBindings }
    \cup { <<Emulated(<<b1, b2>>)>> : b1 \in CoreBindings, b2 \in CoreBindings }
    \cup { <<s1, s2>> : s1 \in CoreSetLayouts, s2 \in CoreSetLayouts }
    \cup { <<r>> : r \in Runs }
    \cup { <<ArgumentBuffer(Stages), r>> : r \in Runs }

\* (ShaderStageFlags, Range<u32>): only the end of the range is read
PushFlags == { {"Vertex"}, Stages }
PushConstantRanges ==
    { [ flags |-> f, range_end |-> e ] : f \in PushFlags, e \in {0, 4} }

\* no range, one range, or a vertex range followed by a range of all stages
PushConstantRangeLists ==
    { << >> }
    \cup { <<r>> : r \in PushConstantRanges }
    \cup { <<r1, r2>> : r1 \in { r \in PushConstantRanges : r.flags = {"Vertex"} },
                        r2 \in { r \in PushConstantRanges : r.flags = Stages } }

LayoutDevices == { d \in Devices : ~d.private_caps.resource_heaps }

InitLayout ==
    /\ caps \in LayoutDevices
    /\ pl_req \in [ set_layouts : SetLayoutLists,
                    push_constant_ranges : PushConstantRangeLists ]
    /\ pl_res = None
    /\ ds_set = None /\ ds_req = None /\ ds_res = None
    /\ gp = None
    /\ mem = None /\ mm = None
    /\ rq = None /\ rq_res = None
    /\ flag = None /\ locks = None /\ th = None

CreatePipelineLayout ==
    /\ pl_res = None
    /\ pl_res' = create_pipeline_layout(caps, pl_req.set_layouts,
                                        pl_req.push_constant_ranges)
    /\ UNCHANGED <<caps, pl_req, descriptor_vars, gp, memory_vars, query_vars, sync_vars>>

NextLayout == CreatePipelineLayout

SpecLayout == InitLayout /\ [][NextLayout]_vars

(***************************************************************************)
(* Properties of create_pipeline_layout.                                   *)
(***************************************************************************)

\* the consumers a list of set layouts declares, in declaration order: every
\* binding of an emulated layout, and an argument buffer layout as one consumer
SetConsumers(set_layout, set_index) ==
    IF set_layout.kind = "Emulated"
    THEN [ j \in 1..Len(set_layout.bindings) |->
             [ set |-> set_index, binding |-> set_layout.bindings[j].binding,
               ty |-> set_layout.bindings[j].ty,
               flags |-> set_layout.bindings[j].stage_flags ] ]
    ELSE << [ set |-> set_index, binding |-> 0, ty |-> "ArgumentBuffer",
              flags |-> set_layout.stage_flags ] >>

RECURSIVE Consumers(_, _)
Consumers(set_layouts, i) ==
    IF i > Len(set_layouts) THEN << >>
    ELSE SetConsumers(set_layouts[i], i - 1) \o Consumers(set_layouts, i + 1)

TakesBuffer(ty) == ty \in {"UniformBuffer", "StorageBuffer", "ArgumentBuffer"}
TakesTexture(ty) ==
    ty \in {"SampledImage", "StorageImage", "UniformTexelBuffer", "StorageTexelBuffer",
            "InputAttachment", "CombinedImageSampler"}
TakesSampler(ty) == ty \in {"Sampler", "CombinedImageSampler"}

\* how many of the first n consumers take a buffer (texture, sampler) slot in a stage
BuffersTaken(flat, stage, n) ==
    Cardinality({ j \in 1..n : stage \in flat[j].flags /\ TakesBuffer(flat[j].ty) })
TexturesTaken(flat, stage, n) ==
    Cardinality({ j \in 1..n : stage \in flat[j].flags /\ TakesTexture(flat[j].ty) })
SamplersTaken(flat, stage, n) ==
    Cardinality({ j \in 1..n : stage \in flat[j].flags /\ TakesSampler(flat[j].ty) })

PushConstantsLocation(stage) ==
    ResourceBindingLocation(stage, PUSH_CONSTANTS_DESC_SET, PUSH_CONSTANTS_DESC_BINDING)

\* some push constant range names the stage and ends above 0
UsesPushConstants(stage) ==
    \E i \in 1..Len(pl_req.push_constant_ranges) :
        /\ stage \in pl_req.push_constant_ranges[i].flags
        /\ pl_req.push_constant_ranges[i].range_end # 0

\* C2: in a returned layout, a stage with push constants has the push constant
\* slot recorded, and that slot is above every buffer slot the walk gave to a
\* binding or an argument buffer set in the stage
PushConstantSlotAboveBufferSlots ==
    (pl_res # None /\ pl_res.status = "ok") =>
        \A stage \in Stages :
            UsesPushConstants(stage) =>
                /\ PushConstantsLocation(stage) \in DOMAIN pl_res.layout.res_overrides
                /\ \A i \in 1..Len(pl_res.walk.inserts) :
                     LET ins == pl_res.walk.inserts[i]
                     IN  (ins.key.stage = stage /\ ins.res.buffer_id # NoId) =>
                            pl_res.layout.res_overrides[PushConstantsLocation(stage)].buffer_id
                                > ins.res.buffer_id

\* a returned layout with vertex push constants and a vertex buffer slot in use
PushConstantSlotWitness ==
    /\ pl_res # None
    /\ pl_res.status = "ok"
    /\ UsesPushConstants("Vertex")
    /\ \E k \in DOMAIN pl_res.layout.res_overrides :
         /\ k.stage = "Vertex"
         /\ k.desc_set # PUSH_CONSTANTS_DESC_SET
         /\ pl_res.layout.res_overrides[k].buffer_id # NoId

\* C3: during the walk the counters of a stage never decrease and no
\* (stage, set, binding) key is inserted twice
WalkAssignsEachKeyOnce ==
    pl_res # None =>
        LET ins == pl_res.walk.inserts
        IN  \A i \in 1..Len(ins) : \A j \in 1..Len(ins) :
                i < j =>
                    /\ ins[i].key # ins[j].key
                    /\ ins[i].key.stage = ins[j].key.stage =>
                         /\ ins[i].counters.buffers <= ins[j].counters.buffers
                         /\ ins[i].counters.textures <= ins[j].counters.textures
                         /\ ins[i].counters.samplers <= ins[j].counters.samplers

\* C4: after a walk that did not panic, each stage's counters are the numbers of
\* consumers of each category that name the stage, the keys recorded for the stage
\* are those of the consumers that name it, and a key's slots are the numbers of
\* consumers of the category that precede the (last) consumer with that key
SlotsFollowCategoryAndStage ==
    (pl_res # None /\ pl_res.walk.status = "ok") =>
        LET flat == Consumers(pl_req.set_layouts, 1)
            n == Len(flat)
            w == pl_res.walk
            Key(stage, j) == ResourceBindingLocation(stage, flat[j].set, flat[j].binding)
        IN  /\ \A stage \in Stages :
                 w.counters[stage] = [ buffers |-> BuffersTaken(flat, stage, n),
                                       textures |-> TexturesTaken(flat, stage, n),
                                       samplers |-> SamplersTaken(flat, stage, n) ]
            /\ DOMAIN w.res_overrides =
                 { Key(q[1], q[2]) :
                     q \in { r \in Stages \X (1..n) : r[1] \in flat[r[2]].flags } }
            /\ \A stage \in Stages : \A j \in 1..n :
                 (/\ stage \in flat[j].flags
                  /\ \A l \in (j + 1)..n :
                       ~(Key(stage, l) = Key(stage, j) /\ stage \in flat[l].flags)) =>
                    /\ Key(stage, j) \in DOMAIN w.res_overrides
                    /\ w.res_overrides[Key(stage, j)] =
                         [ buffer_id |-> IF TakesBuffer(flat[j].ty)
                                         THEN BuffersTaken(flat, stage, j - 1) ELSE NoId,
                           texture_id |-> IF TakesTexture(flat[j].ty)
                                          THEN TexturesTaken(flat, stage, j - 1) ELSE NoId,
                           sampler_id |-> IF TakesSampler(flat[j].ty)
                                          THEN SamplersTaken(flat, stage, j - 1) ELSE NoId ]

\* the scenario: one uniform buffer binding active in the vertex stage only
SingleVertexUniformBufferWitness ==
    /\ pl_res # None
    /\ pl_res.status = "ok"
    /\ pl_req.set_layouts =
         << Emulated(<< DescriptorSetLayoutBinding(0, "UniformBuffer", 1, {"Vertex"}) >>) >>
    /\ pl_res.layout.res_overrides[ResourceBindingLocation("Vertex", 0, 0)].buffer_id = 0
    /\ pl_res.walk.counters["Fragment"] = ZeroCounters
    /\ pl_res.walk.counters["Compute"] = ZeroCounters

\* the limits of the device hold for the numbers of consumers of a stage
WithinLimits(flat, stage) ==
    /\ BuffersTaken(flat, stage, Len(flat)) <= caps.private_caps.max_buffers_per_stage
    /\ TexturesTaken(flat, stage, Len(flat)) <= caps.private_caps.max_textures_per_stage
    /\ SamplersTaken(flat, stage, Len(flat)) <= caps.private_caps.max_samplers_per_stage

\* C5: a returned layout stays within the three limits in every stage, and set
\* layouts that pass a limit in some stage yield no layout
ReturnedLayoutWithinLimits ==
    pl_res # None =>
        LET flat == Consumers(pl_req.set_layouts, 1)
        IN  /\ pl_res.status = "ok" =>
                 \A stage \in Stages :
                     /\ WithinLimits(flat, stage)
                     /\ pl_res.walk.counters[stage].buffers
                            <= caps.private_caps.max_buffers_per_stage
                     /\ pl_res.walk.counters[stage].textures
                            <= caps.private_caps.max_textures_per_stage
                     /\ pl_res.walk.counters[stage].samplers
                            <= caps.private_caps.max_samplers_per_stage
            /\ (\E stage \in Stages : ~WithinLimits(flat, stage)) =>
                 (pl_res.status = "panic" /\ pl_res.layout = None)

\* a returned layout that uses every sampler slot of the vertex stage
LimitReachedWitness ==
    /\ pl_res # None
    /\ pl_res.status = "ok"
    /\ pl_res.walk.counters["Vertex"].samplers = caps.private_caps.max_samplers_per_stage

\* C6: attribute_buffer_index is the number of vertex stage buffer consumers of
\* the set layouts, whatever the push constants ranges are, and is above every
\* vertex stage buffer slot of a descriptor resource
AttributeBufferIndexIsVertexBufferCount ==
    (pl_res # None /\ pl_res.status = "ok") =>
        LET flat == Consumers(pl_req.set_layouts, 1)
            o == pl_res.layout.res_overrides
        IN  /\ pl_res.layout.attribute_buffer_index = BuffersTaken(flat, "Vertex", Len(flat))
            /\ pl_res.layout.attribute_buffer_index = pl_res.walk.counters["Vertex"].buffers
            /\ \A k \in DOMAIN o :
                 (/\ k.stage = "Vertex"
                  /\ k.desc_set # PUSH_CONSTANTS_DESC_SET
                  /\ o[k].buffer_id # NoId) =>
                     o[k].buffer_id < pl_res.layout.attribute_buffer_index

\* a returned layout with two vertex buffer slots, vertex push constants and a
\* fragment stage that uses another number of buffers
AttributeBufferIndexWitness ==
    /\ pl_res # None
    /\ pl_res.status = "ok"
    /\ UsesPushConstants("Vertex")
    /\ pl_res.layout.attribute_buffer_index = 2
    /\ pl_res.walk.counters["Fragment"].buffers = 1

(***************************************************************************)
(* write_descriptor_sets on an emulated descriptor set                     *)
(***************************************************************************)

\* the variant of n::DescriptorSetBinding that holds the descriptors of a
\* binding of the given type
DescriptorSetBindingKind(ty) ==
    CASE ty = "Sampler" -> "Sampler"
      [] ty = "CombinedImageSampler" -> "Combined"
      [] ty \in {"UniformBuffer", "StorageBuffer"} -> "Buffer"
      [] OTHER -> "Image"

\* an emulated set as the pool hands it out: per binding of the layout an array
\* of `count` slots, each holding `fill`
DescriptorSet(layout, fill) ==
    [ layout |-> layout,
      bindings |-> [ b \in { layout[i].binding : i \in 1..Len(layout) } |->
                       LET l == layout[CHOOSE i \in 1..Len(layout) : layout[i].binding = b]
                       IN  [ kind |-> DescriptorSetBindingKind(l.ty),
                             vec |-> [ j \in 1..l.count |-> fill ] ] ] ]

\* set.layout.iter().find(|layout| layout.binding == binding): the index of the
\* first entry with that number, 0 when there is none
FindLayout(layout, binding) ==
    IF \E i \in 1..Len(layout) : layout[i].binding = binding
    THEN CHOOSE i \in 1..Len(layout) :
            /\ layout[i].binding = binding
            /\ \A j \in 1..(i - 1) : layout[j].binding # binding
    ELSE 0

\* the while loop before each descriptor: past the end of the binding's array,
\* go to the next binding number at offset 0; expect() panics on a number the
\* layout does not have
RECURSIVE AdvanceCursor(_, _, _)
AdvanceCursor(layout, binding, array_offset) ==
    LET i == FindLayout(layout, binding)
    IN  IF i = 0 THEN [ ok |-> FALSE, binding |-> binding, array_offset |-> array_offset ]
        ELSE IF array_offset >= layout[i].count
        THEN AdvanceCursor(layout, binding + 1, 0)
        ELSE [ ok |-> TRUE, binding |-> binding, array_offset |-> array_offset ]

\* an Option<u64> that is None
Unbounded == -1

\* the match without its last arm: a descriptor of any kind is stored
StoredValueOfAnyKind(descriptor, kind) ==
    [ kind |-> "Some", resource |-> descriptor.id ]

\* the arms of the match on (descriptor, binding): the value stored, None for a
\* pair of kinds that panics with "mismatched descriptor set type"
StoredValue(descriptor, kind) ==
    CASE descriptor.kind = "Sampler" /\ kind = "Sampler" ->
            [ kind |-> "Some", sampler |-> descriptor.id ]
      [] descriptor.kind = "Image" /\ kind = "Image" ->
            [ kind |-> "Some", image |-> descriptor.id, layout |-> descriptor.layout ]
      [] descriptor.kind = "CombinedImageSampler" /\ kind = "Combined" ->
            [ kind |-> "Some", image |-> descriptor.id, layout |-> descriptor.layout,
              sampler |-> descriptor.id ]
      [] descriptor.kind \in {"UniformTexelBuffer", "StorageTexelBuffer"} /\ kind = "Image" ->
            [ kind |-> "Some", image |-> descriptor.id, layout |-> "General" ]
      [] descriptor.kind = "Buffer" /\ kind = "Buffer" ->
            [ kind |-> "Some", buffer |-> descriptor.id,
              offset |-> IF descriptor.range_start = Unbounded THEN 0
                         ELSE descriptor.range_start ]
      [] OTHER -> None

\* assert!(end <= buf_length) of the buffer arm
BufferRangeFits(descriptor) ==
    LET end == IF descriptor.range_end = Unbounded THEN descriptor.length
               ELSE descriptor.range_end
    IN  end <= descriptor.length

\* the body of the loop over write.descriptors for one descriptor: w is the set,
\* the cursor and the status so far, and the log of the descriptors that came to
\* the match (the slot at the cursor and the set as each found it)
WriteDescriptor(w, descriptor) ==
    IF w.status # "ok" THEN w
    ELSE LET cursor == AdvanceCursor(w.set.layout, w.binding, w.array_offset)
         IN  IF ~cursor.ok THEN [ w EXCEPT !.status = "panic" ]
             ELSE LET target == w.set.bindings[cursor.binding]
                      value == StoredValue(descriptor, target.kind)
                      step == [ binding |-> cursor.binding,
                                array_offset |-> cursor.array_offset,
                                descriptor |-> descriptor, before |-> w.set ]
                  IN  IF value = None
                         \/ (descriptor.kind = "Buffer" /\ ~BufferRangeFits(descriptor))
                      THEN [ w EXCEPT !.status = "panic",
                                      !.binding = cursor.binding,
                                      !.array_offset = cursor.array_offset,
                                      !.log = Append(@, step) ]
                      ELSE [ w EXCEPT
                               !.set.bindings[cursor.binding].vec[cursor.array_offset + 1]
                                   = value,
                               !.binding = cursor.binding,
                               !.array_offset = cursor.array_offset,
                               !.log = Append(@, step) ]

RECURSIVE WriteDescriptors(_, _, _)
WriteDescriptors(w, descriptors, i) ==
    IF i > Len(descriptors) THEN w
    ELSE LET next == WriteDescriptor(w, descriptors[i])
         IN  IF next.status = "ok" THEN WriteDescriptors(next, descriptors, i + 1)
             ELSE next

\* one write of write_descriptor_sets on an emulated set: the set after it (a
\* panic leaves the set as the descriptors before it made it) and the status
write_descriptor_set(set, write) ==
    LET w == WriteDescriptors([ set |-> set, binding |-> write.binding,
                                array_offset |-> write.array_offset, status |-> "ok",
                                log |-> << >> ],
                              write.descriptors, 1)
    IN  [ set |-> w.set, status |-> w.status, log |-> w.log ]

\* for _copy in copies { unimplemented!() }
copy_descriptor_sets(set, copies) ==
    IF Len(copies) > 0 THEN [ set |-> set, status |-> "unimplemented" ]
    ELSE [ set |-> set, status |-> "ok" ]

(***************************************************************************)
(* The sets and the writes that are explored.                              *)
(***************************************************************************)

\* the length of a write's descriptor list
MaxDescriptors == 2

EmulatedTypes == { "Sampler", "SampledImage", "CombinedImageSampler", "UniformBuffer" }

\* layouts of one or two bindings, numbered from 0, with arrays of 1..MaxCount
DescriptorSetLayouts ==
    { << DescriptorSetLayoutBinding(0, t0, n0, Stages) >> :
        t0 \in EmulatedTypes, n0 \in 1..MaxCount }
    \cup { << DescriptorSetLayoutBinding(0, t[1], n[1], Stages),
              DescriptorSetLayoutBinding(1, t[2], n[2], Stages) >> :
            t \in EmulatedTypes \X EmulatedTypes, n \in (1..MaxCount) \X (1..MaxCount) }

\* a slot of a new set is empty; "old" stands for what an earlier write left
OldValue == [ kind |-> "Some", old |-> TRUE ]
Fills == { None, OldValue }

\* the descriptors of resource i, one per kind, with the sub-ranges of a buffer
\* of length 1
Descriptors(i) ==
    { [ kind |-> k, id |-> i, layout |-> "ShaderReadOnlyOptimal" ] :
        k \in { "Sampler", "Image", "CombinedImageSampler", "UniformTexelBuffer",
                "StorageTexelBuffer" } }
    \cup { [ kind |-> "Buffer", id |-> i, length |-> 1, range_start |-> s, range_end |-> e ] :
             s \in { Unbounded, 1 }, e \in { Unbounded, 1, 2 } }

\* descriptor lists: k descriptors of one shape, of the resources 1..k
DescriptorLists ==
    { << >> }
    \cup UNION { { [ i \in 1..k |-> [ d EXCEPT !.id = i ] ] : d \in Descriptors(1) } :
                 k \in 1..MaxDescriptors }

DescriptorSetWrites ==
    [ binding : {0, 1, 2}, array_offset : 0..MaxCount, descriptors : DescriptorLists ]

InitDescriptors ==
    /\ caps \in { d \in LayoutDevices : d.push_constants_buffer_id = 1
                                        /\ d.private_caps.shared_textures }
    /\ ds_set \in { DescriptorSet(l, f) : l \in DescriptorSetLayouts, f \in Fills }
    /\ ds_req \in DescriptorSetWrites
    /\ ds_res = None
    /\ pl_req = None /\ pl_res = None
    /\ gp = None
    /\ mem = None /\ mm = None
    /\ rq = None /\ rq_res = None
    /\ flag = None /\ locks = None /\ th = None

WriteDescriptorSets ==
    /\ ds_res = None
    /\ LET r == write_descriptor_set(ds_set, ds_req)
       IN  /\ ds_set' = r.set
           /\ ds_res' = [ op |-> "write_descriptor_sets", status |-> r.status,
                          before |-> ds_set, log |-> r.log ]
    /\ UNCHANGED <<caps, ds_req, layout_vars, gp, memory_vars, query_vars, sync_vars>>

\* pso::DescriptorSetCopy, from the set to itself: lists of up to two copies
DescriptorSetCopies ==
    LET copy == [ src_binding |-> 0, src_array_offset |-> 0,
                  dst_binding |-> 0, dst_array_offset |-> 0, count |-> 1 ]
    IN  { << >>, << copy >>, << copy, copy >> }

CopyDescriptorSets ==
    /\ ds_set # None
    /\ ds_res = None
    /\ \E copies \in DescriptorSetCopies :
         LET r == copy_descriptor_sets(ds_set, copies)
         IN  /\ ds_set' = r.set
             /\ ds_res' = [ op |-> "copy_descriptor_sets", status |-> r.status,
                            before |-> ds_set, copies |-> copies ]
    /\ UNCHANGED <<caps, ds_req, layout_vars, gp, memory_vars, query_vars, sync_vars>>

NextDescriptors == WriteDescriptorSets \/ CopyDescriptorSets

SpecDescriptors == InitDescriptors /\ [][NextDescriptors]_vars

(***************************************************************************)
(* Properties of write_descriptor_sets.                                    *)
(***************************************************************************)

\* the (binding, array index) slots of a layout from (binding, array_offset) on:
\* the rest of that binding's array, then the arrays of the following binding
\* numbers
RECURSIVE SlotsFrom(_, _, _)
SlotsFrom(layout, binding, array_offset) ==
    LET i == FindLayout(layout, binding)
    IN  IF i = 0 THEN << >>
        ELSE [ j \in 1..Max(layout[i].count - array_offset, 0) |->
                 [ binding |-> binding, index |-> array_offset + j - 1 ] ]
             \o SlotsFrom(layout, binding + 1, 0)

\* C1: a write of k descriptors that returned, with at least k slots from
\* (binding, array_offset) on, stored the i-th descriptor in the i-th of them
WriteFillsConsecutiveSlots ==
    (ds_res # None /\ ds_res.op = "write_descriptor_sets" /\ ds_res.status = "ok") =>
        LET slots == SlotsFrom(ds_set.layout, ds_req.binding, ds_req.array_offset)
        IN  Len(ds_req.descriptors) <= Len(slots) =>
                \A i \in 1..Len(ds_req.descriptors) :
                    LET target == ds_set.bindings[slots[i].binding]
                    IN  target.vec[slots[i].index + 1] =
                            StoredValue(ds_req.descriptors[i], target.kind)

(***************************************************************************)
(* create_graphics_pipeline: the vertex buffers                            *)
(***************************************************************************)

\* pipeline_desc.vertex_buffers.iter().find(|vb| vb.binding == binding): the
\* index of the first vertex buffer with that binding, 0 when there is none
FindVertexBuffer(vertex_buffers, binding) ==
    IF \E i \in 1..Len(vertex_buffers) : vertex_buffers[i].binding = binding
    THEN CHOOSE i \in 1..Len(vertex_buffers) :
            /\ vertex_buffers[i].binding = binding
            /\ \A j \in 1..(i - 1) : vertex_buffers[j].binding # binding
    ELSE 0

\* "handle wrapping offsets": (cut_offset, base_offset) of an element in a buffer
\* of a stride that is not 0
WrapOffsets(offset, elem_size, stride) ==
    IF offset < stride THEN [ cut_offset |-> offset, base_offset |-> 0 ]
    ELSE LET remainder == offset % stride
         IN  IF remainder + elem_size <= stride
             THEN [ cut_offset |-> remainder, base_offset |-> offset - remainder ]
             ELSE [ cut_offset |-> 0, base_offset |-> offset ]

\* pipeline_desc.depth_stencil.map(..): an enabled stencil test is not
\* implemented
depth_stencil_state_ignoring_stencil(g) == [ g EXCEPT !.pc = "attributes" ]

depth_stencil_state(g) ==
    IF g.depth_stencil # None /\ g.depth_stencil.stencil = "On"
    THEN [ g EXCEPT !.pc = "done", !.status = "unimplemented" ]
    ELSE [ g EXCEPT !.pc = "attributes" ]

\* the early check on the number of vertex stage buffers
TooManyBufferInputs(attribute_buffer_index, vertex_buffers, device) ==
    attribute_buffer_index + Len(vertex_buffers) > device.private_caps.max_buffers_per_stage

\* the match without its Occupied arm: every attribute allocates
RemapEntryAlwaysVacant(vertex_buffer_map, next_buffer_index, key, original, device) ==
    IF next_buffer_index = device.push_constants_buffer_id
    THEN [ status |-> "Err(Other)", vertex_buffer_map |-> vertex_buffer_map,
           next_buffer_index |-> next_buffer_index, mtl_buffer_index |-> NoId ]
    ELSE [ status |-> "ok",
           vertex_buffer_map |->
               [ k \in DOMAIN vertex_buffer_map \cup {key} |->
                   IF k = key
                   THEN [ binding |-> next_buffer_index, stride |-> original.stride,
                          rate |-> original.rate ]
                   ELSE vertex_buffer_map[k] ],
           next_buffer_index |-> next_buffer_index + 1,
           mtl_buffer_index |-> next_buffer_index ]

\* the match on vertex_buffer_map.entry((binding, base_offset)): the map and the
\* next index after it and the index given to the attribute, or the error
RemapEntry(vertex_buffer_map, next_buffer_index, key, original, device) ==
    IF key \in DOMAIN vertex_buffer_map
    THEN [ status |-> "ok", vertex_buffer_map |-> vertex_buffer_map,
           next_buffer_index |-> next_buffer_index,
           mtl_buffer_index |-> vertex_buffer_map[key].binding ]
    ELSE IF next_buffer_index = device.push_constants_buffer_id
    THEN [ status |-> "Err(Other)", vertex_buffer_map |-> vertex_buffer_map,
           next_buffer_index |-> next_buffer_index, mtl_buffer_index |-> NoId ]
    ELSE [ status |-> "ok",
           vertex_buffer_map |->
               Insert(vertex_buffer_map, key,
                      [ binding |-> next_buffer_index, stride |-> original.stride,
                        rate |-> original.rate ]),
           next_buffer_index |-> next_buffer_index + 1,
           mtl_buffer_index |-> next_buffer_index ]

\* one pass of the loop over pipeline_desc.attributes
RemapAttribute(g, attribute, device) ==
    LET v == FindVertexBuffer(g.vertex_buffers, attribute.binding)
        original == g.vertex_buffers[v]
        element == attribute.element
    IN  IF v = 0 THEN [ g EXCEPT !.pc = "done", !.status = "panic" ]
        ELSE IF element.offset >= original.stride /\ original.stride = 0
        THEN [ g EXCEPT !.pc = "done", !.status = "panic",
                        !.last = [ attribute |-> attribute, stride |-> original.stride,
                                   offsets |-> None ] ]
        ELSE LET o == WrapOffsets(element.offset, element.size, original.stride)
                 key == << attribute.binding, o.base_offset >>
                 e == RemapEntry(g.vertex_buffer_map, g.next_buffer_index, key,
                                 original, device)
                 seen == [ g EXCEPT !.last = [ attribute |-> attribute,
                                               stride |-> original.stride,
                                               offsets |-> o ] ]
             IN  IF e.status # "ok"
                 THEN [ seen EXCEPT !.pc = "done", !.status = e.status ]
                 ELSE [ seen EXCEPT !.vertex_buffer_map = e.vertex_buffer_map,
                                    !.next_buffer_index = e.next_buffer_index,
                                    !.attributes = Append(@,
                                        [ key |-> key,
                                          buffer_index |-> e.mtl_buffer_index ]) ]

STRIDE_GRANULARITY == 4

\* vertex_descriptor.layouts().object_at(index): the native array has one
\* layout per buffer slot of a stage and answers nothing past its end
object_at_any_index(index) == TRUE

object_at(index) == index < MaxBuffersPerStage

\* the loop over vertex_buffer_map.values(), which come in no fixed order: the
\* ways it can end. A value without a native layout fails the expect, a value
\* with one and a stride that is no multiple of STRIDE_GRANULARITY is refused
SetLayouts(vertex_buffer_map) ==
    LET values == { vertex_buffer_map[key] : key \in DOMAIN vertex_buffer_map }
        missing == { vb \in values : ~object_at(vb.binding) }
        unaligned == { vb \in values \ missing : vb.stride % STRIDE_GRANULARITY # 0 }
    IN  IF missing = {} /\ unaligned = {} THEN { "ok" }
        ELSE { "panic" : vb \in missing } \cup { "Err(Other)" : vb \in unaligned }

(***************************************************************************)
(* The calls of create_graphics_pipeline that are explored.                *)
(***************************************************************************)

\* the number of attributes of a pipeline description
MaxAttributes == 3
\* element offsets are multiples of 4 up to 4 * MaxOffsetWords
MaxOffsetWords == 3

ElementSizes == { 4, 8 }
Strides == { 0, 4, 6, 8 }
ElementOffsets == { 4 * k : k \in 0..MaxOffsetWords }

AttributeDescs ==
    [ binding : {0, 1}, element : [ offset : ElementOffsets, size : ElementSizes ] ]

\* one per-vertex buffer of any of the strides, or a per-vertex and a
\* per-instance buffer of an aligned and an unaligned stride
VertexBufferLists ==
    { << [ binding |-> 0, stride |-> s, rate |-> 0 ] >> : s \in Strides }
    \cup { << [ binding |-> 0, stride |-> s[1], rate |-> 0 ],
              [ binding |-> 1, stride |-> s[2], rate |-> 1 ] >> : s \in {4, 6} \X {4, 6} }

\* attribute_buffer_index of the layout: past a low push constant slot, and
\* next to the limit
AttributeBufferIndices == { 2, MaxBuffersPerStage - 2, MaxBuffersPerStage - 1 }

\* pipeline_desc.depth_stencil: none, or a description with the stencil test
\* off or on
DepthStencils == { None, [ stencil |-> "Off" ], [ stencil |-> "On" ] }

\* compile_shader_library: the raw module parses, cross-compiles and builds, or
\* one of these steps gives its ShaderError
compile_shader_library(ep) ==
    IF ep.compiles THEN "Ok" ELSE "Err(CompilationFailed)"

\* load_shader: a raw module is compiled and the result unwrapped; the entry
\* point is then looked up by get_final_function
load_shader(ep) ==
    IF ep.module = "Raw" /\ compile_shader_library(ep) # "Ok" THEN "panic"
    ELSE IF ~ep.has_entry THEN "Err(Other)"
    ELSE "ok"

\* the part of create_graphics_pipeline between the check of the buffer inputs
\* and the depth stencil state: the vertex and fragment shaders are loaded, the
\* other stages refused, the format of the color target mapped
Prelude(desc) ==
    LET vertex == load_shader(desc.vertex)
        fragment == IF desc.fragment = None THEN "ok" ELSE load_shader(desc.fragment)
        loads == IF vertex # "ok" \/ desc.fragment = None
                 THEN << [ stage |-> "Vertex", res |-> vertex ] >>
                 ELSE << [ stage |-> "Vertex", res |-> vertex ],
                         [ stage |-> "Fragment", res |-> fragment ] >>
        status ==
            CASE vertex # "ok" -> vertex
              [] fragment # "ok" -> fragment
              [] desc.hull -> "Err(Shader(UnsupportedStage(Hull)))"
              [] desc.domain -> "Err(Shader(UnsupportedStage(Domain)))"
              [] desc.geometry -> "Err(Shader(UnsupportedStage(Geometry)))"
              [] desc.target = "no format" -> "panic"
              [] desc.target = "no native format" -> "Err(Other)"
              [] OTHER -> "ok"
    IN  [ status |-> status, loads |-> loads ]

PreludeOutcomes ==
    { "ok", "panic", "Err(Other)", "Err(Shader(UnsupportedStage(Hull)))",
      "Err(Shader(UnsupportedStage(Domain)))", "Err(Shader(UnsupportedStage(Geometry)))" }

\* pso::EntryPoint: a module that is compiled already or raw, and whether its
\* entry point is in the library
EntryPoints ==
    { [ module |-> "Compiled", compiles |-> TRUE, has_entry |-> e ] : e \in BOOLEAN }
        \cup [ module : { "Raw" }, compiles : BOOLEAN, has_entry : BOOLEAN ]

\* the shaders and the color target of a description: one that loads, and
\* those that differ from it in one or two places
GraphicsShaderSets ==
    LET good == [ module |-> "Compiled", compiles |-> TRUE, has_entry |-> TRUE ]
        raw == [ good EXCEPT !.module = "Raw" ]
        invalid == [ raw EXCEPT !.compiles = FALSE ]
        stray == [ good EXCEPT !.has_entry = FALSE ]
        base == [ vertex |-> good, fragment |-> raw, hull |-> FALSE, domain |-> FALSE,
                  geometry |-> FALSE, target |-> "mapped" ]
    IN  { base }
        \cup { [ base EXCEPT !.vertex = v ] : v \in { invalid, stray } }
        \cup { [ base EXCEPT !.fragment = f ] : f \in { invalid, stray } }
        \cup { [ base EXCEPT !.hull = TRUE ], [ base EXCEPT !.domain = TRUE ],
               [ base EXCEPT !.geometry = TRUE ],
               [ base EXCEPT !.geometry = TRUE, !.fragment = None ],
               [ base EXCEPT !.geometry = TRUE, !.vertex = invalid ],
               [ base EXCEPT !.geometry = TRUE, !.fragment = stray ],
               [ base EXCEPT !.hull = TRUE, !.geometry = TRUE ] }
        \cup { [ base EXCEPT !.target = t ] : t \in { "no format", "no native format" } }

InitPipeline ==
    /\ caps \in { d \in LayoutDevices : d.private_caps.shared_textures }
    /\ gp \in { [ pc |-> "start", status |-> "running",
                  attribute_buffer_index |-> a, vertex_buffers |-> vbs,
                  depth_stencil |-> ds, prelude |-> "ok",
                  call |-> "none", desc |-> None, loads |-> << >>, last |-> None,
                  vertex_buffer_map |-> EmptyMap, next_buffer_index |-> a,
                  attributes |-> << >> ] :
                a \in AttributeBufferIndices, vbs \in VertexBufferLists,
                ds \in DepthStencils }
    /\ pl_req = None /\ pl_res = None
    /\ ds_set = None /\ ds_req = None /\ ds_res = None
    /\ mem = None /\ mm = None
    /\ rq = None /\ rq_res = None
    /\ flag = None /\ locks = None /\ th = None

\* the call up to the vertex buffers: the check of the buffer inputs, the
\* shaders and color targets, and the depth stencil state
GpBegin ==
    /\ gp # None
    /\ gp.pc = "start"
    /\ \E desc \in GraphicsShaderSets :
         LET g == [ gp EXCEPT !.call = "create_graphics_pipeline", !.desc = desc ]
             prelude == Prelude(desc)
         IN  gp' = IF TooManyBufferInputs(gp.attribute_buffer_index, gp.vertex_buffers,
                                          caps)
                   THEN [ g EXCEPT !.pc = "done", !.status = "Err(InterfaceMismatch)" ]
                   ELSE IF prelude.status # "ok"
                   THEN [ g EXCEPT !.pc = "done", !.status = prelude.status,
                                   !.prelude = prelude.status, !.loads = prelude.loads ]
                   ELSE depth_stencil_state([ g EXCEPT !.loads = prelude.loads ])
    /\ UNCHANGED <<caps, layout_vars, descriptor_vars, memory_vars, query_vars, sync_vars>>

\* create_compute_pipeline: the shader is loaded, then the device makes the
\* native pipeline state or refuses
CreateComputePipeline ==
    /\ gp # None
    /\ gp.pc = "start"
    /\ \E ep \in EntryPoints, native_ok \in BOOLEAN :
         LET shader == load_shader(ep)
         IN  gp' = [ gp EXCEPT !.call = "create_compute_pipeline",
                               !.desc = [ shader |-> ep ],
                               !.pc = "done",
                               !.loads = << [ stage |-> "Compute", res |-> shader ] >>,
                               !.status = IF shader # "ok" THEN shader
                                          ELSE IF native_ok THEN "ok"
                                          ELSE "Err(Other)" ]
    /\ UNCHANGED <<caps, layout_vars, descriptor_vars, memory_vars, query_vars, sync_vars>>

\* the next attribute of the description
GpAttribute ==
    /\ gp.pc = "attributes"
    /\ Len(gp.attributes) < MaxAttributes
    /\ \E attribute \in AttributeDescs : gp' = RemapAttribute(gp, attribute, caps)
    /\ UNCHANGED <<caps, layout_vars, descriptor_vars, memory_vars, query_vars, sync_vars>>

\* no attribute is left: the layouts of the vertex descriptor and the native
\* pipeline state, which the device makes or refuses
GpFinish ==
    /\ gp.pc = "attributes"
    /\ \E native_ok \in BOOLEAN, layouts \in SetLayouts(gp.vertex_buffer_map) :
         gp' = [ gp EXCEPT !.pc = "done",
                           !.status = IF layouts # "ok" THEN layouts
                                      ELSE IF native_ok THEN "ok" ELSE "Err(Other)" ]
    /\ UNCHANGED <<caps, layout_vars, descriptor_vars, memory_vars, query_vars, sync_vars>>

NextPipeline == GpBegin \/ GpAttribute \/ GpFinish \/ CreateComputePipeline

SpecPipeline == InitPipeline /\ [][NextPipeline]_vars

\* the pairs of the attributes before the i-th
PairsBefore(i) == { gp.attributes[j].key : j \in 1..(i - 1) }

\* C7: attributes of one (binding, base offset) pair have one buffer index and
\* one entry of the map, attributes of different pairs have different indices,
\* and the pairs are numbered from attribute_buffer_index on in the order in
\* which they first appear
RemapReusesPairIndex ==
    gp # None =>
        LET n == Len(gp.attributes)
            pairs == { gp.attributes[i].key : i \in 1..n }
        IN  /\ \A i, j \in 1..n :
                  (gp.attributes[i].key = gp.attributes[j].key)
                      <=> (gp.attributes[i].buffer_index = gp.attributes[j].buffer_index)
            /\ \A i \in 1..n :
                  gp.attributes[i].key \notin PairsBefore(i) =>
                      gp.attributes[i].buffer_index =
                          gp.attribute_buffer_index + Cardinality(PairsBefore(i))
            /\ DOMAIN gp.vertex_buffer_map = pairs
            /\ \A key \in pairs :
                  \A i \in 1..n :
                      gp.attributes[i].key = key =>
                          gp.vertex_buffer_map[key].binding = gp.attributes[i].buffer_index
            /\ gp.next_buffer_index = gp.attribute_buffer_index + Cardinality(pairs)

\* a pipeline was made of three attributes, the third of the pair of the first
\* and the second of another pair, in a layout with vertex stage buffers
RemapReuseWitness ==
    /\ gp # None
    /\ gp.pc = "done" /\ gp.status = "ok"
    /\ gp.attribute_buffer_index = 2
    /\ Len(gp.attributes) = 3
    /\ gp.attributes[1].key = gp.attributes[3].key
    /\ gp.attributes[1].key # gp.attributes[2].key
    /\ gp.attributes[2].key[1] = gp.attributes[1].key[1]

(***************************************************************************)
(* Memory: allocate_memory, map_memory, flush_mapped_memory_ranges         *)
(***************************************************************************)

\* MemoryTypes::SHARED.bits()
SHARED == 2

MemoryTypeIds == 0..3

\* MemoryTypes::describe
describe(index) ==
    CASE index = 0 -> [ storage |-> "Private", cache |-> "DefaultCache" ]
      [] index = 1 -> [ storage |-> "Shared", cache |-> "DefaultCache" ]
      [] index = 2 -> [ storage |-> "Managed", cache |-> "WriteCombined" ]
      [] index = 3 -> [ storage |-> "Managed", cache |-> "DefaultCache" ]

\* the block that allocate_memory returns; contents is the address of the
\* buffer that device.new_buffer makes
allocate_memory(device, memory_type, size, contents) ==
    LET storage == describe(memory_type).storage
        cache == describe(memory_type).cache
        heap ==
            IF device.private_caps.resource_heaps /\ storage # "Shared" /\ FALSE
            THEN [ kind |-> "Native", storage |-> storage, cache |-> cache,
                   size |-> size ]
            ELSE IF storage = "Private"
            THEN [ kind |-> "Private" ]
            ELSE [ kind |-> "Public", memory_type |-> memory_type,
                   cpu_buffer |-> [ contents |-> contents, length |-> size,
                                    storage |-> storage, cache |-> cache ] ]
    IN  [ heap |-> heap, size |-> size ]

\* n::Memory::resolve: the range with its missing ends taken from the block
resolve(memory, generic_range) ==
    [ start |-> IF generic_range.start = Unbounded THEN 0 ELSE generic_range.start,
      end |-> IF generic_range.end = Unbounded THEN memory.size ELSE generic_range.end ]

\* the pointer is the base of the buffer whatever the range
map_memory_base_only(memory, generic_range) ==
    IF memory.heap.kind = "Public"
    THEN [ status |-> "ok", ptr |-> memory.heap.cpu_buffer.contents ]
    ELSE [ status |-> "panic" ]

map_memory(memory, generic_range) ==
    LET range == resolve(memory, generic_range)
    IN  IF memory.heap.kind = "Public"
        THEN [ status |-> "ok", ptr |-> memory.heap.cpu_buffer.contents + range.start ]
        ELSE [ status |-> "panic" ]

\* every host-visible block is notified, the shared one too
FlushRangeEveryPublic(memory, generic_range) ==
    LET range == resolve(memory, generic_range)
    IN  IF memory.heap.kind = "Public"
        THEN [ status |-> "ok",
               calls |-> << [ buffer |-> memory.heap.cpu_buffer.contents,
                              location |-> range.start,
                              length |-> range.end - range.start ] >> ]
        ELSE [ status |-> "panic", calls |-> << >> ]

\* the body of the loop of flush_mapped_memory_ranges: the did_modify_range
\* calls of one item, or the abort
FlushRange(memory, generic_range) ==
    LET range == resolve(memory, generic_range)
    IN  CASE memory.heap.kind = "Native" -> [ status |-> "unimplemented", calls |-> << >> ]
          [] memory.heap.kind = "Public" /\ 2 ^ memory.heap.memory_type # SHARED ->
                [ status |-> "ok",
                  calls |-> << [ buffer |-> memory.heap.cpu_buffer.contents,
                                 location |-> range.start,
                                 length |-> range.end - range.start ] >> ]
          [] memory.heap.kind = "Public" /\ 2 ^ memory.heap.memory_type = SHARED ->
                [ status |-> "ok", calls |-> << >> ]
          [] memory.heap.kind = "Private" -> [ status |-> "panic", calls |-> << >> ]

\* the loop from the i-th item on, after the calls made so far
RECURSIVE FlushFrom(_, _, _, _)
FlushFrom(blocks, items, i, calls) ==
    IF i > Len(items) THEN [ status |-> "ok", calls |-> calls ]
    ELSE LET f == FlushRange(blocks[items[i].memory].memory, items[i].range)
         IN  IF f.status = "ok" THEN FlushFrom(blocks, items, i + 1, calls \o f.calls)
             ELSE [ status |-> f.status, calls |-> calls ]

flush_mapped_memory_ranges(blocks, items) == FlushFrom(blocks, items, 1, << >>)

\* the body of the loop of invalidate_mapped_memory_ranges: the
\* synchronize_resource calls of one item, or the abort
InvalidateRange(memory, generic_range) ==
    LET range == resolve(memory, generic_range)
    IN  CASE memory.heap.kind = "Native" -> [ status |-> "unimplemented", syncs |-> << >> ]
          [] memory.heap.kind = "Public" /\ 2 ^ memory.heap.memory_type # SHARED ->
                [ status |-> "ok", syncs |-> << memory.heap.cpu_buffer.contents >> ]
          [] memory.heap.kind = "Public" /\ 2 ^ memory.heap.memory_type = SHARED ->
                [ status |-> "ok", syncs |-> << >> ]
          [] memory.heap.kind = "Private" -> [ status |-> "panic", syncs |-> << >> ]

\* the loop from the i-th item on, after the calls made so far
RECURSIVE InvalidateFrom(_, _, _, _)
InvalidateFrom(blocks, items, i, syncs) ==
    IF i > Len(items) THEN [ status |-> "ok", syncs |-> syncs ]
    ELSE LET f == InvalidateRange(blocks[items[i].memory].memory, items[i].range)
         IN  IF f.status = "ok" THEN InvalidateFrom(blocks, items, i + 1, syncs \o f.syncs)
             ELSE [ status |-> f.status, syncs |-> syncs ]

\* the command buffer is committed whatever was encoded
NeedsWaitAlways(num_syncs) == TRUE

\* if num_syncs != 0
NeedsWait(num_syncs) == num_syncs # 0

\* the call: the command buffer is made, the loop runs, and when it is over the
\* encoder is ended, the command buffer released to the pool, and committed and
\* waited for if anything was encoded
invalidate_mapped_memory_ranges(blocks, items) ==
    LET loop == InvalidateFrom(blocks, items, 1, << >>)
        num_syncs == Len(loop.syncs)
    IN  IF loop.status # "ok"
        THEN [ status |-> loop.status, syncs |-> loop.syncs, made |-> TRUE,
               released |-> FALSE, committed |-> FALSE, waited |-> FALSE ]
        ELSE [ status |-> "ok", syncs |-> loop.syncs, made |-> TRUE,
               released |-> TRUE, committed |-> NeedsWait(num_syncs),
               waited |-> NeedsWait(num_syncs) ]

\* the offset is left out of the range of a host-visible block
bind_buffer_memory_at_zero(memory, offset, buffer, heap_raw, device_raw) ==
    [ status |-> "Ok",
      raw |-> IF memory.heap.kind = "Public" THEN memory.heap.cpu_buffer
              ELSE device_raw,
      range |-> [ start |-> 0, end |-> buffer.size ] ]

\* heap_raw is what heap.new_buffer answers (None or a native buffer of the
\* heap), device_raw what device.new_buffer makes if it is called
bind_buffer_memory(memory, offset, buffer, heap_raw, device_raw) ==
    CASE memory.heap.kind = "Native" ->
           [ status |-> "Ok",
             raw |-> IF heap_raw # None THEN heap_raw
                     ELSE [ device_raw EXCEPT !.storage = memory.heap.storage,
                                              !.cache = memory.heap.cache ],
             res_options |-> [ storage |-> memory.heap.storage,
                               cache |-> memory.heap.cache ],
             range |-> [ start |-> 0, end |-> buffer.size ] ]
      [] memory.heap.kind = "Public" ->
           [ status |-> "Ok",
             raw |-> memory.heap.cpu_buffer,
             res_options |-> describe(memory.heap.memory_type),
             range |-> [ start |-> offset, end |-> offset + buffer.size ] ]
      [] memory.heap.kind = "Private" ->
           [ status |-> "Ok",
             raw |-> [ device_raw EXCEPT !.storage = "Private",
                                         !.cache = "DefaultCache" ],
             res_options |-> [ storage |-> "Private", cache |-> "DefaultCache" ],
             range |-> [ start |-> 0, end |-> buffer.size ] ]

(***************************************************************************)
(* The allocations and the calls on them that are explored.                *)
(***************************************************************************)

\* the sizes of the blocks are 1..MaxSize
MaxSize == 2

Handles == { 1, 2 }
Addresses == { 4096, 8192 }

MemoryDevices ==
    { d \in Devices : /\ ~d.private_caps.shared_textures
                      /\ d.push_constants_buffer_id = 1 }

Allocated == { h \in Handles : mem[h] # None }

InUse == { mem[h].memory.heap.cpu_buffer.contents :
             h \in { a \in Allocated : mem[a].memory.heap.kind = "Public" } }

\* the ranges of a block: either end may be left out
GenericRanges(memory) ==
    { r \in [ start : {Unbounded} \cup 0..memory.size,
              end : {Unbounded} \cup 0..memory.size ] :
        resolve(memory, r).start <= resolve(memory, r).end }

FlushItems ==
    UNION { { [ memory |-> h, range |-> r ] : r \in GenericRanges(mem[h].memory) } :
              h \in Allocated }

\* no range, one, or two
FlushLists ==
    { << >> } \cup { << it >> : it \in FlushItems }
    \cup { << p[1], p[2] >> : p \in FlushItems \X FlushItems }

InitMemory ==
    /\ caps \in MemoryDevices
    /\ mem = [ h \in Handles |-> None ]
    /\ mm = None
    /\ pl_req = None /\ pl_res = None
    /\ ds_set = None /\ ds_req = None /\ ds_res = None
    /\ gp = None
    /\ rq = None /\ rq_res = None
    /\ flag = None /\ locks = None /\ th = None

AllocateMemory ==
    /\ mem # None
    /\ mm = None
    /\ \E h \in Handles \ Allocated, memory_type \in MemoryTypeIds,
          size \in 1..MaxSize, contents \in Addresses \ InUse :
         /\ \A lower \in Handles : lower < h => lower \in Allocated
         /\ mem' = [ mem EXCEPT ![h] =
                       [ memory_type |-> memory_type, size |-> size,
                         memory |-> allocate_memory(caps, memory_type, size, contents) ] ]
    /\ UNCHANGED <<caps, mm, layout_vars, descriptor_vars, gp, query_vars, sync_vars>>

MapMemory ==
    /\ mm = None
    /\ \E h \in Allocated :
         \E r \in GenericRanges(mem[h].memory) :
            mm' = [ op |-> "map_memory", memory |-> h, range |-> r,
                    res |-> map_memory(mem[h].memory, r) ]
    /\ UNCHANGED <<caps, mem, layout_vars, descriptor_vars, gp, query_vars, sync_vars>>

FlushMappedMemoryRanges ==
    /\ mem # None
    /\ mm = None
    /\ \E items \in FlushLists :
         mm' = [ op |-> "flush_mapped_memory_ranges", ranges |-> items,
                 res |-> flush_mapped_memory_ranges(mem, items) ]
    /\ UNCHANGED <<caps, mem, layout_vars, descriptor_vars, gp, query_vars, sync_vars>>

InvalidateMappedMemoryRanges ==
    /\ mem # None
    /\ mm = None
    /\ \E items \in FlushLists :
         mm' = [ op |-> "invalidate_mapped_memory_ranges", ranges |-> items,
                 res |-> invalidate_mapped_memory_ranges(mem, items) ]
    /\ UNCHANGED <<caps, mem, layout_vars, descriptor_vars, gp, query_vars, sync_vars>>

\* the native buffer is new: its address is none of the blocks'
BindBufferMemory ==
    /\ mem # None
    /\ mm = None
    /\ \E h \in Allocated, offset \in 0..MaxSize, size \in 0..MaxSize,
          heap_answers \in BOOLEAN :
         LET buffer == [ size |-> size, usage |-> {} ]
             fresh == [ contents |-> 3 * 4096, length |-> size,
                        storage |-> "Private", cache |-> "DefaultCache" ]
             heap_raw == IF heap_answers /\ mem[h].memory.heap.kind = "Native"
                         THEN [ fresh EXCEPT !.storage = mem[h].memory.heap.storage,
                                             !.cache = mem[h].memory.heap.cache ]
                         ELSE None
         IN  /\ heap_answers => mem[h].memory.heap.kind = "Native"
             /\ mm' = [ op |-> "bind_buffer_memory", memory |-> h, offset |-> offset,
                        buffer |-> buffer, heap_raw |-> heap_raw,
                        res |-> bind_buffer_memory(mem[h].memory, offset, buffer,
                                                   heap_raw, fresh) ]
    /\ UNCHANGED <<caps, mem, layout_vars, descriptor_vars, gp, query_vars, sync_vars>>

NextMemory ==
    \/ AllocateMemory
    \/ MapMemory
    \/ FlushMappedMemoryRanges
    \/ InvalidateMappedMemoryRanges
    \/ BindBufferMemory

SpecMemory == InitMemory /\ [][NextMemory]_vars

\* C8: the block is a native heap when the device has resource heaps and the
\* storage mode of the memory type is not Shared, else a private allocation
\* when the mode is Private, else a host-visible buffer of the requested size
\* tagged with the requested memory type
AllocationFollowsPriority ==
    mem # None =>
        \A h \in Allocated :
            LET storage == describe(mem[h].memory_type).storage
                heap == mem[h].memory.heap
            IN  IF caps.private_caps.resource_heaps /\ storage # "Shared"
                THEN heap.kind = "Native"
                ELSE IF storage = "Private"
                THEN heap.kind = "Private"
                ELSE /\ heap.kind = "Public"
                     /\ heap.cpu_buffer.length = mem[h].size
                     /\ heap.memory_type = mem[h].memory_type

\* C9: map_memory returns exactly on a host-visible block, and then the address
\* of its buffer advanced by the start of the resolved range; on a private or
\* native heap block it aborts and returns no pointer
MapOnlyHostVisible ==
    (mm # None /\ mm.op = "map_memory") =>
        LET memory == mem[mm.memory].memory
            start == IF mm.range.start = Unbounded THEN 0 ELSE mm.range.start
        IN  /\ (mm.res.status = "ok") <=> (memory.heap.kind = "Public")
            /\ memory.heap.kind = "Public" =>
                  mm.res.ptr = memory.heap.cpu_buffer.contents + start
            /\ memory.heap.kind \in { "Private", "Native" } =>
                  /\ mm.res.status = "panic"
                  /\ "ptr" \notin DOMAIN mm.res

\* a managed block was mapped from a start inside it, next to a private block
MapWitness ==
    /\ mm # None /\ mm.op = "map_memory"
    /\ mm.res.status = "ok"
    /\ mm.range.start > 0
    /\ mem[mm.memory].memory.heap.memory_type = 2
    /\ \E h \in Allocated : mem[h].memory.heap.kind = "Private"

\* the items that the loop went through: all of them, or those before the one
\* whose block is not host-visible
Flushed(items) ==
    LET stops == { i \in 1..Len(items) : mem[items[i].memory].memory.heap.kind # "Public" }
    IN  IF stops = {} THEN items
        ELSE SubSeq(items, 1, (CHOOSE i \in stops : \A j \in stops : i <= j) - 1)

\* the items among the first n that are notified: those of a host-visible block
\* that is not of the shared memory type
Notified(items, n) ==
    { i \in 1..n : /\ mem[items[i].memory].memory.heap.kind = "Public"
                   /\ mem[items[i].memory].memory_type # 1 }

\* C10: no call is made for a range of a block of the shared memory type, and
\* each range of a host-visible block of another type that the loop goes
\* through gets one did_modify_range, of location the start of the range and
\* length its end less its start, in the order of the ranges
FlushNotifiesManagedRanges ==
    (mm # None /\ mm.op = "flush_mapped_memory_ranges") =>
        LET items == Flushed(mm.ranges)
            calls == mm.res.calls
        IN  /\ (mm.res.status = "ok") <=> (items = mm.ranges)
            /\ Len(calls) = Cardinality(Notified(items, Len(items)))
            /\ \A i \in Notified(items, Len(items)) :
                  LET call == calls[Cardinality(Notified(items, i))]
                      memory == mem[items[i].memory].memory
                      start == IF items[i].range.start = Unbounded THEN 0
                               ELSE items[i].range.start
                      end == IF items[i].range.end = Unbounded THEN memory.size
                             ELSE items[i].range.end
                  IN  /\ call.buffer = memory.heap.cpu_buffer.contents
                      /\ call.location = start
                      /\ call.length = end - start

\* a flush of a range of a shared block and then a range of a managed block
\* with a start that is not 0 returned after one call
FlushWitness ==
    /\ mm # None /\ mm.op = "flush_mapped_memory_ranges"
    /\ mm.res.status = "ok"
    /\ Len(mm.ranges) = 2
    /\ mem[mm.ranges[1].memory].memory_type = 1
    /\ mem[mm.ranges[2].memory].memory_type = 3
    /\ mm.ranges[2].range.start = 1 /\ mm.ranges[2].range.end = Unbounded
    /\ Len(mm.res.calls) = 1

\* C11: an invalidate that returns has made one synchronize_resource call per
\* range of a host-visible block that is not of the shared memory type, in the
\* order of the ranges, and none for the others; it has committed the command
\* buffer and waited for it exactly when it made such a call, and an invalidate
\* that aborts has neither committed nor waited
InvalidateSyncsThenWaits ==
    (mm # None /\ mm.op = "invalidate_mapped_memory_ranges") =>
        LET items == Flushed(mm.ranges)
            syncs == mm.res.syncs
            n == Cardinality(Notified(items, Len(items)))
        IN  /\ (mm.res.status = "ok") <=> (items = mm.ranges)
            /\ Len(syncs) = n
            /\ \A i \in Notified(items, Len(items)) :
                  syncs[Cardinality(Notified(items, i))]
                      = mem[items[i].memory].memory.heap.cpu_buffer.contents
            /\ mm.res.committed <=> (mm.res.status = "ok" /\ n > 0)
            /\ mm.res.waited <=> mm.res.committed
            /\ (mm.ranges = << >>) =>
                  (mm.res.status = "ok" /\ syncs = << >> /\ ~mm.res.committed)

\* an invalidate of a shared range and a managed range returned after one
\* synchronization and a wait
InvalidateWaitWitness ==
    /\ mm # None /\ mm.op = "invalidate_mapped_memory_ranges"
    /\ mm.res.status = "ok"
    /\ Len(mm.ranges) = 2
    /\ mem[mm.ranges[1].memory].memory_type = 1
    /\ mem[mm.ranges[2].memory].memory_type = 2
    /\ Len(mm.res.syncs) = 1
    /\ mm.res.waited

(***************************************************************************)
(* The paths that are declared and not implemented, in one specification:  *)
(* a descriptor set and its copies, or a pipeline description, or memory   *)
(* blocks and their flushes and invalidates.                               *)
(***************************************************************************)

InitUnimplemented ==
    \/ /\ InitDescriptors
       /\ Len(ds_set.layout) = 1
       /\ ds_req.descriptors = << >>
    \/ /\ InitPipeline
       /\ gp.attribute_buffer_index \in { 2, MaxBuffersPerStage - 1 }
    \/ InitMemory

NextUnimplemented ==
    \/ CopyDescriptorSets
    \/ GpBegin
    \/ AllocateMemory
    \/ FlushMappedMemoryRanges
    \/ InvalidateMappedMemoryRanges

SpecUnimplemented == InitUnimplemented /\ [][NextUnimplemented]_vars

\* a copy_descriptor_sets of at least one copy signals not implemented and
\* leaves the set as it was
CopyFailsLoudly ==
    (ds_res # None /\ ds_res.op = "copy_descriptor_sets" /\ Len(ds_res.copies) > 0) =>
        (ds_res.status = "unimplemented" /\ ds_set = ds_res.before)

\* a flush or an invalidate that comes to a range of a native heap block
\* signals not implemented
NativeHeapRangeFailsLoudly ==
    (mm # None /\ mm.op \in { "flush_mapped_memory_ranges",
                             "invalidate_mapped_memory_ranges" }) =>
        LET items == Flushed(mm.ranges)
        IN  (/\ Len(items) < Len(mm.ranges)
             /\ mem[mm.ranges[Len(items) + 1].memory].memory.heap.kind = "Native") =>
                mm.res.status = "unimplemented"

KindsMatch(descriptor_kind, binding_kind) ==
    \/ descriptor_kind = "Sampler" /\ binding_kind = "Sampler"
    \/ descriptor_kind = "Image" /\ binding_kind = "Image"
    \/ descriptor_kind = "CombinedImageSampler" /\ binding_kind = "Combined"
    \/ descriptor_kind = "Buffer" /\ binding_kind = "Buffer"
    \/ descriptor_kind \in { "UniformTexelBuffer", "StorageTexelBuffer" }
          /\ binding_kind = "Image"

\* the set as the i-th descriptor of the log left it
SetAfter(i) ==
    IF i < Len(ds_res.log) THEN ds_res.log[i + 1].before ELSE ds_set

\* the slot that the i-th descriptor of the log targets holds that descriptor
\* after it, and every other slot of the set is as before it
OverwritesTargetOnly(i) ==
    LET e == ds_res.log[i]
        after == SetAfter(i)
        slot == after.bindings[e.binding].vec[e.array_offset + 1]
    IN  /\ slot # None /\ slot.kind = "Some"
        /\ \E f \in DOMAIN slot : f \in { "sampler", "image", "buffer" }
                                  /\ slot[f] = e.descriptor.id
        /\ after.layout = e.before.layout
        /\ DOMAIN after.bindings = DOMAIN e.before.bindings
        /\ \A b \in DOMAIN after.bindings :
             /\ after.bindings[b].kind = e.before.bindings[b].kind
             /\ Len(after.bindings[b].vec) = Len(e.before.bindings[b].vec)
             /\ \A j \in 1..Len(after.bindings[b].vec) :
                  (b # e.binding \/ j # e.array_offset + 1) =>
                      after.bindings[b].vec[j] = e.before.bindings[b].vec[j]

\* the i-th descriptor of the log ended the write with a panic and left the
\* set as it found it
AbortsUnmodified(i) ==
    /\ ds_res.status = "panic"
    /\ i = Len(ds_res.log)
    /\ SetAfter(i) = ds_res.log[i].before

\* C13 as stated: a descriptor whose kind does not match the kind of the
\* binding at the cursor aborts the write and leaves the set unmodified, and a
\* descriptor whose kind matches overwrites the slot at the cursor and no other
MismatchAbortsMatchOverwrites ==
    (ds_res # None /\ ds_res.op = "write_descriptor_sets") =>
        \A i \in 1..Len(ds_res.log) :
            LET e == ds_res.log[i]
            IN  IF KindsMatch(e.descriptor.kind, e.before.bindings[e.binding].kind)
                THEN OverwritesTargetOnly(i)
                ELSE AbortsUnmodified(i)

\* the range of a buffer descriptor ends within the buffer
RangeWithinBuffer(descriptor) ==
    descriptor.kind = "Buffer" =>
        (descriptor.range_end = Unbounded \/ descriptor.range_end <= descriptor.length)

\* C13 amended: as stated, but a buffer descriptor on a buffer binding whose
\* range ends past the buffer aborts the write too and leaves the set unmodified
MismatchOrRangeAbortsMatchOverwrites ==
    (ds_res # None /\ ds_res.op = "write_descriptor_sets") =>
        \A i \in 1..Len(ds_res.log) :
            LET e == ds_res.log[i]
            IN  IF /\ KindsMatch(e.descriptor.kind, e.before.bindings[e.binding].kind)
                   /\ RangeWithinBuffer(e.descriptor)
                THEN OverwritesTargetOnly(i)
                ELSE AbortsUnmodified(i)

\* a texel buffer descriptor written to a sampler binding that an earlier write
\* had filled aborted the write, next to a second binding
MismatchAbortWitness ==
    /\ ds_res # None /\ ds_res.op = "write_descriptor_sets"
    /\ ds_res.status = "panic"
    /\ Len(ds_res.log) = 1
    /\ ds_res.log[1].descriptor.kind = "UniformTexelBuffer"
    /\ ds_set.bindings[ds_res.log[1].binding].kind = "Sampler"
    /\ Len(ds_set.layout) = 2
    /\ ds_set.bindings[ds_res.log[1].binding].vec[ds_res.log[1].array_offset + 1] = OldValue

(***************************************************************************)
(* get_buffer_requirements, get_image_requirements                         *)
(*                                                                         *)
(* u64 is modelled as words of WordBits bits: sums are taken modulo        *)
(* Modulus, and a sum that passes it panics in a build with overflow       *)
(* checks and wraps in a build without.                                    *)
(***************************************************************************)

WordBits == 12
Modulus == 2 ^ WordBits

\* a + b in u64: the wrapped sum, and whether it overflowed
AddWord(a, b) == [ value |-> (a + b) % Modulus, overflow |-> a + b >= Modulus ]

\* the low bits are kept
AndNotKeepingLowBits(x, mask) == x

\* x & !mask, for a mask of the form 2^k - 1
AndNot(x, mask) == x - (x % (mask + 1))

\* const SIZE_MASK: u64 = 0xFF
SIZE_MASK == 255

\* cmp::max over the native answers for the memory types in `types`, from `init`
MaxOver(init, native, types, field) ==
    LET values == { native[i][field] : i \in types } \cup { init }
    IN  CHOOSE v \in values : \A u \in values : u <= v

\* the texel usages do not narrow the mask
BufferTypeMaskAll(device, buffer) == MemoryTypeIds

\* type_mask of get_buffer_requirements, as the set of memory type indices:
\* MemoryTypes::all() ^ MemoryTypes::SHARED leaves out index 1
BufferTypeMask(device, buffer) ==
    LET supports_texel_view ==
            buffer.usage \cap { "UNIFORM_TEXEL", "STORAGE_TEXEL" } # {}
    IN  IF supports_texel_view /\ ~device.private_caps.shared_textures
        THEN { i \in MemoryTypeIds : 2 ^ i # SHARED }
        ELSE MemoryTypeIds

\* native[i] is what heap_buffer_size_and_align answers for memory type i
get_buffer_requirements(device, buffer, native, overflow_checks) ==
    LET heaps == device.private_caps.resource_heaps
        max_size == IF heaps THEN MaxOver(buffer.size, native, MemoryTypeIds, "size")
                    ELSE buffer.size
        max_alignment ==
            IF heaps
            THEN MaxOver(device.private_caps.buffer_alignment, native, MemoryTypeIds,
                         "align")
            ELSE device.private_caps.buffer_alignment
        sum == AddWord(max_size, SIZE_MASK)
    IN  IF sum.overflow /\ overflow_checks THEN [ status |-> "panic" ]
        ELSE [ status |-> "ok",
               size |-> AndNot(sum.value, SIZE_MASK),
               alignment |-> max_alignment,
               type_mask |-> BufferTypeMask(device, buffer) ]

\* image.mip_sizes.iter().sum()
RECURSIVE SumWords(_, _)
SumWords(sizes, i) ==
    IF i > Len(sizes) THEN [ value |-> 0, overflow |-> FALSE ]
    ELSE LET rest == SumWords(sizes, i + 1)
             sum == AddWord(sizes[i], rest.value)
         IN  [ value |-> sum.value, overflow |-> rest.overflow \/ sum.overflow ]

\* native[i] is what heap_texture_size_and_align answers for memory type i
get_image_requirements(device, image, native, overflow_checks) ==
    IF device.private_caps.resource_heaps
    THEN LET types == IF image.host_visible THEN MemoryTypeIds ELSE { 0 }
         IN  [ status |-> "ok",
               size |-> MaxOver(0, native, types, "size"),
               alignment |-> MaxOver(0, native, types, "align"),
               type_mask |-> types ]
    ELSE IF image.host_visible
    THEN IF Len(image.mip_sizes) # 1 THEN [ status |-> "panic" ]
         ELSE LET mask == device.private_caps.buffer_alignment - 1
                  sum == AddWord(image.mip_sizes[1], mask)
              IN  IF sum.overflow /\ overflow_checks THEN [ status |-> "panic" ]
                  ELSE [ status |-> "ok",
                         size |-> AndNot(sum.value, mask),
                         alignment |-> device.private_caps.buffer_alignment,
                         type_mask |-> IF device.private_caps.shared_textures
                                       THEN MemoryTypeIds
                                       ELSE { i \in MemoryTypeIds : 2 ^ i # SHARED } ]
    ELSE LET sum == SumWords(image.mip_sizes, 1)
         IN  IF sum.overflow /\ overflow_checks THEN [ status |-> "panic" ]
             ELSE [ status |-> "ok", size |-> sum.value, alignment |-> 4,
                    type_mask |-> { 0 } ]

\* n::Image::pitches: row, depth and array pitch of a mip level
pitches(image, level) == image.pitches[level + 1]

\* the layers of a level are not counted in the offset of the next
get_image_subresource_footprint_single_layer(image, sub) ==
    LET level_offset[l \in 0..sub.level] ==
            IF l = 0 THEN 0 ELSE level_offset[l - 1] + pitches(image, l - 1)[3]
        layer_offset == level_offset[sub.level] + sub.layer * pitches(image, sub.level)[3]
    IN  [ slice |-> [ start |-> layer_offset,
                      end |-> layer_offset + pitches(image, sub.level)[3] ],
          row_pitch |-> pitches(image, sub.level)[1],
          depth_pitch |-> pitches(image, sub.level)[2],
          array_pitch |-> pitches(image, sub.level)[3] ]

\* level_offset[l] is the fold over the levels 0 .. l
get_image_subresource_footprint(image, sub) ==
    LET num_layers == IF image.num_layers = None THEN 1 ELSE image.num_layers.value
        level_offset[l \in 0..sub.level] ==
            IF l = 0 THEN 0
            ELSE level_offset[l - 1] + num_layers * pitches(image, l - 1)[3]
        layer_offset == level_offset[sub.level] + sub.layer * pitches(image, sub.level)[3]
    IN  [ slice |-> [ start |-> layer_offset,
                      end |-> layer_offset + pitches(image, sub.level)[3] ],
          row_pitch |-> pitches(image, sub.level)[1],
          depth_pitch |-> pitches(image, sub.level)[2],
          array_pitch |-> pitches(image, sub.level)[3] ]

\* n::UnboundBuffer values of create_buffer: any size, any usage
UnboundBuffers ==
    { [ size |-> s, usage |-> u ] :
        s \in { 0, 1, 256, 257, Modulus - 256, Modulus - 255, Modulus - 1 },
        u \in { {}, { "VERTEX" }, { "UNIFORM_TEXEL" }, { "STORAGE_TEXEL", "VERTEX" } } }

MaxMipLevels == 2
MipSizes == { 4, 100, Modulus - 1 }

RECURSIVE SeqsUpTo(_, _)
SeqsUpTo(values, n) ==
    IF n = 0 THEN { << >> }
    ELSE LET shorter == SeqsUpTo(values, n - 1)
         IN  shorter \cup { Append(q, v) : q \in { t \in shorter : Len(t) = n - 1 },
                                           v \in values }

\* n::UnboundImage values of create_image: host_visible only with one mip level
UnboundImages ==
    { [ host_visible |-> TRUE, mip_sizes |-> << s >> ] : s \in MipSizes }
        \cup { [ host_visible |-> FALSE, mip_sizes |-> q ] :
                  q \in SeqsUpTo(MipSizes, MaxMipLevels) \ { << >> } }

MaxLayers == 2

\* n::Image values: num_layers of create_image, and per mip level the row,
\* depth and array pitch
Images ==
    { [ num_layers |-> n, pitches |-> p ] :
        n \in { None } \cup { [ kind |-> "Some", value |-> v ] : v \in 1..MaxLayers },
        p \in SeqsUpTo({ << 1, 1, 1 >>, << 2, 4, 4 >>, << 4, 8, 16 >> }, MaxMipLevels)
                \ { << >> } }

\* image::Subresource: any level of the image, any layer
Subresources(image) ==
    { [ level |-> l, layer |-> a ] : l \in 0..(Len(image.pitches) - 1), a \in 0..MaxLayers }

\* what the native heap sizing query may answer for one memory type
NativeAnswers ==
    { [ size |-> 0, align |-> 1 ],
      [ size |-> 300, align |-> 512 ],
      [ size |-> Modulus - 1, align |-> 16 ] }

InitRequirements ==
    /\ caps \in { d \in Devices : d.push_constants_buffer_id = 1 }
    /\ pl_req = None /\ pl_res = None
    /\ ds_set = None /\ ds_req = None /\ ds_res = None
    /\ gp = None /\ mem = None /\ mm = None
    /\ flag = None /\ locks = None /\ th = None
    /\ \/ \E native \in [ MemoryTypeIds -> NativeAnswers ], overflow_checks \in BOOLEAN :
            \/ \E b \in UnboundBuffers :
                 rq = [ kind |-> "buffer", buffer |-> b, image |-> None,
                        native |-> native, overflow_checks |-> overflow_checks ]
            \/ \E i \in UnboundImages :
                 rq = [ kind |-> "image", buffer |-> None, image |-> i,
                        native |-> native, overflow_checks |-> overflow_checks ]
       \/ \E i \in Images : \E sub \in Subresources(i) :
            rq = [ kind |-> "footprint", buffer |-> None, image |-> i, sub |-> sub ]
    /\ rq_res = None

GetBufferRequirements ==
    /\ rq # None /\ rq.kind = "buffer" /\ rq_res = None
    /\ rq_res' = get_buffer_requirements(caps, rq.buffer, rq.native,
                                         rq.overflow_checks)
    /\ UNCHANGED <<caps, layout_vars, descriptor_vars, gp, memory_vars, rq, sync_vars>>

GetImageRequirements ==
    /\ rq # None /\ rq.kind = "image" /\ rq_res = None
    /\ rq_res' = get_image_requirements(caps, rq.image, rq.native,
                                        rq.overflow_checks)
    /\ UNCHANGED <<caps, layout_vars, descriptor_vars, gp, memory_vars, rq, sync_vars>>

GetImageSubresourceFootprint ==
    /\ rq # None /\ rq.kind = "footprint" /\ rq_res = None
    /\ rq_res' = get_image_subresource_footprint(rq.image, rq.sub)
    /\ UNCHANGED <<caps, layout_vars, descriptor_vars, gp, memory_vars, rq, sync_vars>>

NextRequirements ==
    \/ GetBufferRequirements
    \/ GetImageRequirements
    \/ GetImageSubresourceFootprint

SpecRequirements == InitRequirements /\ [][NextRequirements]_vars

\* what the same device without heap support reports for the resource of the
\* request
NonHeapAnswer ==
    LET device == [ caps EXCEPT !.private_caps.resource_heaps = FALSE ]
    IN  IF rq.kind = "buffer"
        THEN get_buffer_requirements(device, rq.buffer, rq.native, rq.overflow_checks)
        ELSE get_image_requirements(device, rq.image, rq.native, rq.overflow_checks)

\* C14: the size and the alignment reported for a resource on a heap-capable
\* device are at least those reported for the same resource on the same device
\* without heap support, whatever the native heap sizing query answers.
HeapRequirementsDominate ==
    ( /\ rq # None /\ rq.kind \in { "buffer", "image" } /\ rq_res # None
      /\ caps.private_caps.resource_heaps
      /\ rq_res.status = "ok" /\ NonHeapAnswer.status = "ok" )
        => /\ rq_res.size >= NonHeapAnswer.size
           /\ rq_res.alignment >= NonHeapAnswer.alignment

\* the largest candidate size of get_buffer_requirements: the requested size
\* and, on a heap-capable device, the native size of every memory type
LargestCandidate ==
    IF caps.private_caps.resource_heaps
    THEN MaxOver(rq.buffer.size, rq.native, MemoryTypeIds, "size")
    ELSE rq.buffer.size

RoundedBufferSize ==
    /\ rq_res.status = "ok"
    /\ rq_res.size % 256 = 0
    /\ rq_res.size >= rq.buffer.size
    /\ rq_res.size >= LargestCandidate
    /\ rq_res.size - LargestCandidate < 256
    /\ ~caps.private_caps.resource_heaps
          => rq_res.alignment = caps.private_caps.buffer_alignment

\* C15 as stated: for every buffer size of the word width,
\* get_buffer_requirements reports a multiple of 256 that is at least the
\* requested size and less than 256 above the largest candidate size, and on a
\* device without heap support the capability record's buffer alignment.
BufferSizeRoundedUpForEverySize ==
    ( rq # None /\ rq.kind = "buffer" /\ rq_res # None ) => RoundedBufferSize

\* C15: the same for every request whose largest candidate size is at most
\* the largest multiple of 256 of the word width; above it the sum
\* max_size + SIZE_MASK overflows.
BufferSizeRoundedUpBelowOverflow ==
    ( /\ rq # None /\ rq.kind = "buffer" /\ rq_res # None
      /\ LargestCandidate <= Modulus - 256 ) => RoundedBufferSize

\* a heap-capable device whose native size, above the requested one and not a
\* multiple of 256, is rounded up
BufferSizeRoundedUpWitness ==
    /\ rq # None /\ rq.kind = "buffer" /\ rq_res # None
    /\ caps.private_caps.resource_heaps
    /\ rq.buffer.size = 257 /\ LargestCandidate = 300
    /\ rq_res.status = "ok" /\ rq_res.size = 512

\* C16: the type mask of get_buffer_requirements holds the private type (0)
\* and the two managed types (2, 3) always, and the shared type (1) unless the
\* usage has a uniform-texel or storage-texel view and the device cannot back
\* textures with shared storage.
BufferTypeMaskExcludesSharedForTexelViews ==
    ( rq # None /\ rq.kind = "buffer" /\ rq_res # None /\ rq_res.status = "ok" )
        => /\ rq_res.type_mask \subseteq 0..3
           /\ { 0, 2, 3 } \subseteq rq_res.type_mask
           /\ 1 \notin rq_res.type_mask
                <=> ( /\ ( "UNIFORM_TEXEL" \in rq.buffer.usage
                           \/ "STORAGE_TEXEL" \in rq.buffer.usage )
                      /\ ~caps.private_caps.shared_textures )

TexelViewWithoutSharedWitness ==
    /\ rq # None /\ rq.kind = "buffer" /\ rq_res # None /\ rq_res.status = "ok"
    /\ "STORAGE_TEXEL" \in rq.buffer.usage
    /\ ~caps.private_caps.shared_textures
    /\ rq_res.type_mask = { 0, 2, 3 }

(***************************************************************************)
(* bind_buffer_memory                                                      *)
(***************************************************************************)

\* C17: bind_buffer_memory returns, on a host-visible block, the block's own
\* native buffer with range [offset, offset + size); on a private block a new
\* device-only buffer with range [0, size) whatever the offset; on a
\* native-heap block the heap's buffer, or a new device buffer when the heap
\* gives none, with range [0, size).
BindDispatchesOnBackingKind ==
    ( mm # None /\ mm.op = "bind_buffer_memory" )
        => LET heap == mem[mm.memory].memory.heap
               size == mm.buffer.size
           IN  /\ mm.res.status = "Ok"
               /\ heap.kind = "Public"
                    => /\ mm.res.raw = heap.cpu_buffer
                       /\ mm.res.range = [ start |-> mm.offset,
                                           end |-> mm.offset + size ]
               /\ heap.kind = "Private"
                    => /\ mm.res.raw.contents \notin InUse
                       /\ mm.res.raw.storage = "Private"
                       /\ mm.res.raw.length = size
                       /\ mm.res.range = [ start |-> 0, end |-> size ]
               /\ heap.kind = "Native"
                    => /\ mm.heap_raw # None => mm.res.raw = mm.heap_raw
                       /\ mm.heap_raw = None
                            => /\ mm.res.raw.contents \notin InUse
                               /\ mm.res.raw.length = size
                       /\ mm.res.range = [ start |-> 0, end |-> size ]

\* a buffer bound into the middle of a host-visible block, with a private
\* block beside it
BindPublicAtOffsetWitness ==
    /\ mm # None /\ mm.op = "bind_buffer_memory"
    /\ mem[mm.memory].memory.heap.kind = "Public"
    /\ mm.offset = 1 /\ mm.buffer.size = 1
    /\ mm.res.range = [ start |-> 1, end |-> 2 ]
    /\ \E h \in Allocated : mem[h].memory.heap.kind = "Private"

(***************************************************************************)
(* get_image_subresource_footprint                                         *)
(***************************************************************************)

\* C18: the slice of (level L, layer A) starts at the sum over the levels
\* l < L of num_layers * array_pitch(l), plus A * array_pitch(L), and is
\* array_pitch(L) long; so for A < num_layers it is disjoint from the slice of
\* every other (level, layer) with layer < num_layers, and it ends before any
\* slice of level L + 1 begins.
FootprintLevelMajorLayerMinor ==
    ( rq # None /\ rq.kind = "footprint" /\ rq_res # None )
        => LET image == rq.image
               levels == 0..(Len(image.pitches) - 1)
               num_layers == IF image.num_layers = None THEN 1
                             ELSE image.num_layers.value
               array_pitch(l) == image.pitches[l + 1][3]
               below[l \in levels] ==
                   IF l = 0 THEN 0 ELSE below[l - 1] + num_layers * array_pitch(l - 1)
               L == rq.sub.level
               A == rq.sub.layer
               slice(l, a) == get_image_subresource_footprint(
                                  image, [ level |-> l, layer |-> a ]).slice
           IN  /\ rq_res.slice.start = below[L] + A * array_pitch(L)
               /\ rq_res.slice.end - rq_res.slice.start = array_pitch(L)
               /\ A < num_layers
                    => /\ \A l \in levels, a \in 0..(num_layers - 1) :
                            << l, a >> # << L, A >>
                               => \/ rq_res.slice.end <= slice(l, a).start
                                  \/ slice(l, a).end <= rq_res.slice.start
                       /\ (L + 1) \in levels
                            => \A a \in 0..MaxLayers :
                                  rq_res.slice.end <= slice(L + 1, a).start

\* the last layer of the first level of a layered image with two levels
FootprintLastLayerWitness ==
    /\ rq # None /\ rq.kind = "footprint" /\ rq_res # None
    /\ rq.image.num_layers = [ kind |-> "Some", value |-> 2 ]
    /\ Len(rq.image.pitches) = 2
    /\ rq.sub = [ level |-> 0, layer |-> 1 ]
    /\ rq_res.slice.start > 0

(***************************************************************************)
(* Fences and the calls that wait: create_fence, reset_fence,              *)
(* wait_for_fence, get_fence_status, invalidate_mapped_memory_ranges,      *)
(* wait_idle, and the calls that take the device's mutex, run by threads    *)
(* that share the device.                                                  *)
(***************************************************************************)

Threads == { "a", "b" }

\* the calls one thread makes
MaxCalls == 2

\* the longest timeout_ms of wait_for_fence
MaxTimeout == 2

\* let tick = 1
tick == 1

\* the wait gives up one tick early
TimedOutAtTick(timeout_ms) == timeout_ms <= tick

\* if timeout_ms < tick { return false }
TimedOut(timeout_ms) == timeout_ms < tick

Lock(held, name, t) == [ held EXCEPT ![name] = t ]

\* the guard is kept
UnlockNothing(held, name) == held

\* the MutexGuard is dropped
Unlock(held, name) == [ held EXCEPT ![name] = "free" ]

\* the temporary guard of self.shared.device.lock() in compile_shader_library
\* outlives the call
new_library_guard_kept(held) == held

\* compile_shader_library: the temporary guard of self.shared.device.lock() is
\* dropped at the end of the statement that makes the library
new_library(held) == Unlock(held, "device")

\* queue_pool.make_command_buffer(&self.shared.device): the pool takes the
\* device's mutex to make the command buffer
make_command_buffer(held, t) == Lock(held, "device", t)

Idle == [ op |-> "none", pc |-> "idle", timeout_ms |-> 0, timeout |-> 0,
          reads |-> << >>, ret |-> "none", num_syncs |-> 0, shaders |-> 0,
          calls |-> 0 ]

\* create_fence(signaled); no mutex held, no call in progress
InitSync ==
    /\ caps = None /\ pl_req = None /\ pl_res = None
    /\ ds_set = None /\ ds_req = None /\ ds_res = None
    /\ gp = None /\ mem = None /\ mm = None
    /\ rq = None /\ rq_res = None
    /\ flag \in BOOLEAN
    /\ locks = [ name \in { "fence", "queue_pool", "aux_queue", "device" } |-> "free" ]
    /\ th = [ t \in Threads |-> Idle ]

\* a thread enters one of the calls; "signal" is the completion of a
\* submission, which sets the fence
Call(t) ==
    /\ th # None /\ th[t].pc = "idle" /\ th[t].calls < MaxCalls
    /\ \E op \in { "wait_for_fence", "reset_fence", "get_fence_status", "signal",
                   "invalidate_mapped_memory_ranges", "wait_idle", "allocate_memory",
                   "create_graphics_pipeline", "create_descriptor_pool" },
          timeout_ms \in 0..MaxTimeout, num_syncs \in 0..1, shaders \in 0..2 :
         /\ op # "wait_for_fence" => timeout_ms = 0
         /\ op # "invalidate_mapped_memory_ranges" => num_syncs = 0
         /\ op # "create_graphics_pipeline" => shaders = 0
         /\ th' = [ th EXCEPT ![t] =
                      [ op |-> op,
                        pc |-> CASE op = "invalidate_mapped_memory_ranges" -> "make"
                                 [] op = "wait_idle" -> "lock_aux_queue"
                                 [] op \in { "allocate_memory", "create_descriptor_pool" }
                                      -> "lock_device"
                                 [] op = "create_graphics_pipeline" -> "load_shader"
                                 [] OTHER -> "lock_fence",
                        timeout_ms |-> timeout_ms, timeout |-> timeout_ms,
                        reads |-> << >>, ret |-> "none", num_syncs |-> num_syncs,
                        shaders |-> shaders,
                        calls |-> th[t].calls + 1 ] ]
    /\ UNCHANGED <<flag, locks>>
    /\ UNCHANGED <<caps, layout_vars, descriptor_vars, gp, memory_vars, query_vars>>

\* fence.0.lock()
LockFence(t) ==
    /\ th # None /\ th[t].pc = "lock_fence"
    /\ locks["fence"] = "free"
    /\ locks' = Lock(locks, "fence", t)
    /\ th' = [ th EXCEPT ![t].pc = "fence_locked" ]
    /\ UNCHANGED flag
    /\ UNCHANGED <<caps, layout_vars, descriptor_vars, gp, memory_vars, query_vars>>

\* one turn of the loop of wait_for_fence, from the read of the flag to the
\* return or to the call of thread::sleep
WaitForFencePoll(t) ==
    /\ th # None /\ th[t].op = "wait_for_fence" /\ th[t].pc = "fence_locked"
    /\ locks' = Unlock(locks, "fence")
    /\ th' = [ th EXCEPT ![t] =
                 IF flag
                 THEN [ @ EXCEPT !.reads = Append(@, flag), !.ret = "true",
                                 !.pc = "idle" ]
                 ELSE IF TimedOut(th[t].timeout_ms)
                 THEN [ @ EXCEPT !.reads = Append(@, flag), !.ret = "false",
                                 !.pc = "idle" ]
                 ELSE [ @ EXCEPT !.reads = Append(@, flag),
                                 !.timeout_ms = @ - tick, !.pc = "sleep" ] ]
    /\ UNCHANGED flag
    /\ UNCHANGED <<caps, layout_vars, descriptor_vars, gp, memory_vars, query_vars>>

\* thread::sleep returns
WaitForFenceWake(t) ==
    /\ th # None /\ th[t].pc = "sleep"
    /\ th' = [ th EXCEPT ![t].pc = "lock_fence" ]
    /\ UNCHANGED <<flag, locks>>
    /\ UNCHANGED <<caps, layout_vars, descriptor_vars, gp, memory_vars, query_vars>>

\* reset_fence, get_fence_status and the signal, once they hold the mutex
FenceAccess(t) ==
    /\ th # None /\ th[t].pc = "fence_locked"
    /\ th[t].op \in { "reset_fence", "get_fence_status", "signal" }
    /\ flag' = CASE th[t].op = "reset_fence" -> FALSE
                 [] th[t].op = "signal" -> TRUE
                 [] OTHER -> flag
    /\ locks' = Unlock(locks, "fence")
    /\ th' = [ th EXCEPT ![t].pc = "idle",
                         ![t].ret = IF th[t].op = "get_fence_status"
                                    THEN IF flag THEN "true" ELSE "false"
                                    ELSE "none" ]
    /\ UNCHANGED <<caps, layout_vars, descriptor_vars, gp, memory_vars, query_vars>>

\* invalidate_mapped_memory_ranges, a step at a time: make_command_buffer
\* under the queue pool's mutex, with the device's mutex inside it, both let
\* go at the end of the statement; the loop that encodes, release_command_buffer
\* under the mutex again, then commit and wait_until_completed if anything was
\* encoded
InvalidateStep(t) ==
    /\ th # None /\ th[t].op = "invalidate_mapped_memory_ranges"
    /\ \/ /\ th[t].pc = "make"
          /\ locks["queue_pool"] = "free"
          /\ locks' = Lock(locks, "queue_pool", t)
          /\ th' = [ th EXCEPT ![t].pc = "make_command_buffer" ]
       \/ /\ th[t].pc = "make_command_buffer"
          /\ locks["device"] = "free"
          /\ locks' = make_command_buffer(locks, t)
          /\ th' = [ th EXCEPT ![t].pc = "encode" ]
       \/ /\ th[t].pc = "encode"
          /\ locks' = Unlock(Unlock(locks, "device"), "queue_pool")
          /\ th' = [ th EXCEPT ![t].pc = "release" ]
       \/ /\ th[t].pc = "release"
          /\ locks["queue_pool"] = "free"
          /\ locks' = Lock(locks, "queue_pool", t)
          /\ th' = [ th EXCEPT ![t].pc = "released" ]
       \/ /\ th[t].pc = "released"
          /\ locks' = Unlock(locks, "queue_pool")
          /\ th' = [ th EXCEPT ![t].pc = IF NeedsWait(th[t].num_syncs)
                                         THEN "wait_until_completed" ELSE "idle" ]
       \/ /\ th[t].pc = "wait_until_completed"
          /\ th' = [ th EXCEPT ![t].pc = "idle" ]
          /\ UNCHANGED locks
    /\ UNCHANGED flag
    /\ UNCHANGED <<caps, layout_vars, descriptor_vars, gp, memory_vars, query_vars>>

\* wait_idle: the guard of the auxiliary queue lives to the end of the call
WaitIdleStep(t) ==
    /\ th # None /\ th[t].op = "wait_idle"
    /\ \/ /\ th[t].pc = "lock_aux_queue"
          /\ locks["aux_queue"] = "free"
          /\ locks' = Lock(locks, "aux_queue", t)
          /\ th' = [ th EXCEPT ![t].pc = "wait_until_completed" ]
       \/ /\ th[t].pc = "wait_until_completed"
          /\ locks' = Unlock(locks, "aux_queue")
          /\ th' = [ th EXCEPT ![t].pc = "idle", ![t].ret = "Ok" ]
    /\ UNCHANGED flag
    /\ UNCHANGED <<caps, layout_vars, descriptor_vars, gp, memory_vars, query_vars>>

\* allocate_memory: the device's mutex from its first line to the return
AllocateMemoryStep(t) ==
    /\ th # None /\ th[t].op = "allocate_memory"
    /\ \/ /\ th[t].pc = "lock_device"
          /\ locks["device"] = "free"
          /\ locks' = Lock(locks, "device", t)
          /\ th' = [ th EXCEPT ![t].pc = "device_locked" ]
       \/ /\ th[t].pc = "device_locked"
          /\ locks' = Unlock(locks, "device")
          /\ th' = [ th EXCEPT ![t].pc = "idle" ]
    /\ UNCHANGED flag
    /\ UNCHANGED <<caps, layout_vars, descriptor_vars, gp, memory_vars, query_vars>>

\* create_descriptor_pool with argument buffers: the device's mutex from the
\* argument encoder to the return
CreateDescriptorPoolStep(t) ==
    /\ th # None /\ th[t].op = "create_descriptor_pool"
    /\ \/ /\ th[t].pc = "lock_device"
          /\ locks["device"] = "free"
          /\ locks' = Lock(locks, "device", t)
          /\ th' = [ th EXCEPT ![t].pc = "device_locked" ]
       \/ /\ th[t].pc = "device_locked"
          /\ locks' = Unlock(locks, "device")
          /\ th' = [ th EXCEPT ![t].pc = "idle" ]
    /\ UNCHANGED flag
    /\ UNCHANGED <<caps, layout_vars, descriptor_vars, gp, memory_vars, query_vars>>

\* create_graphics_pipeline: each raw shader module is compiled under the
\* device's mutex by load_shader, then the device's mutex is taken for the
\* rest of the call
CreateGraphicsPipelineStep(t) ==
    /\ th # None /\ th[t].op = "create_graphics_pipeline"
    /\ \/ /\ th[t].pc = "load_shader" /\ th[t].shaders > 0
          /\ locks["device"] = "free"
          /\ locks' = Lock(locks, "device", t)
          /\ th' = [ th EXCEPT ![t].pc = "new_library" ]
       \/ /\ th[t].pc = "new_library"
          /\ locks' = new_library(locks)
          /\ th' = [ th EXCEPT ![t].pc = "load_shader", ![t].shaders = @ - 1 ]
       \/ /\ th[t].pc = "load_shader" /\ th[t].shaders = 0
          /\ locks["device"] = "free"
          /\ locks' = Lock(locks, "device", t)
          /\ th' = [ th EXCEPT ![t].pc = "device_locked" ]
       \/ /\ th[t].pc = "device_locked"
          /\ locks' = Unlock(locks, "device")
          /\ th' = [ th EXCEPT ![t].pc = "idle" ]
    /\ UNCHANGED flag
    /\ UNCHANGED <<caps, layout_vars, descriptor_vars, gp, memory_vars, query_vars>>

\* what a thread that is in a call does next
Proceed(t) ==
    \/ LockFence(t)
    \/ WaitForFencePoll(t)
    \/ WaitForFenceWake(t)
    \/ FenceAccess(t)
    \/ InvalidateStep(t)
    \/ WaitIdleStep(t)
    \/ AllocateMemoryStep(t)
    \/ CreateDescriptorPoolStep(t)
    \/ CreateGraphicsPipelineStep(t)

NextSync == \E t \in Threads : Call(t) \/ Proceed(t)

\* a thread in a call is scheduled again, a sleep ends, a submission completes
SpecSync ==
    InitSync /\ [][NextSync]_vars /\ \A t \in Threads : WF_vars(Proceed(t))

\* the thread is in thread::sleep or in wait_until_completed
Blocked(t) == th[t].pc \in { "sleep", "wait_until_completed" }

Held(t) == { name \in DOMAIN locks : locks[name] = t }

\* what wait_for_fence has read and returned so far
PollsWithinTimeout(t) ==
    LET w == th[t]
        n == Len(w.reads)
    IN  /\ n <= w.timeout + 1
        /\ \A i \in 1..(n - 1) : ~w.reads[i]
        /\ w.ret \in { "none", "true", "false" }
        /\ w.ret = "none" <=> w.pc # "idle"
        /\ w.ret = "true" <=> ( n >= 1 /\ w.reads[n] )
        /\ w.ret = "false" => ( n = w.timeout + 1 /\ ~w.reads[n] )

\* C19: wait_for_fence with timeout t returns after at most t + 1 polls of the
\* flag; it returns true exactly when a poll reads the flag set, which is then
\* its last poll, and false only after t + 1 polls that all read it unset; it
\* returns a boolean, and no step of it changes the flag.
WaitForFenceTerminatesWithinPolls ==
    /\ [](th # None => \A t \in Threads :
                          th[t].op = "wait_for_fence" => PollsWithinTimeout(t))
    /\ [][ \A t \in Threads :
              ( th'[t].op = "wait_for_fence" /\ th'[t] # th[t] ) => flag' = flag ]_vars
    /\ \A t \in Threads :
          ( th # None /\ th[t].op = "wait_for_fence" /\ th[t].pc # "idle" )
              ~> ( th[t].op = "wait_for_fence" /\ th[t].pc = "idle" )

\* a wait that timed out after a reset, and one that returned at its first poll
\* with timeout 0
WaitForFenceTimedOutWitness ==
    /\ th # None
    /\ th["a"].op = "wait_for_fence" /\ th["a"].pc = "idle"
    /\ th["a"].timeout = MaxTimeout /\ th["a"].ret = "false"
    /\ Len(th["a"].reads) = MaxTimeout + 1
    /\ th["b"].op = "wait_for_fence" /\ th["b"].pc = "idle"
    /\ th["b"].timeout = 0 /\ th["b"].ret = "true"

\* C20: a thread in thread::sleep or in wait_until_completed holds no mutex,
\* except that wait_idle holds the auxiliary queue's, and only that one, while
\* it waits.
NoLockHeldWhileBlocked ==
    th # None
        => \A t \in Threads :
              Blocked(t) => Held(t) = IF th[t].op = "wait_idle"
                                      THEN { "aux_queue" } ELSE {}

\* one thread asleep in wait_for_fence while the other is inside reset_fence
\* with the fence's mutex
ResetDuringSleepWitness ==
    /\ th # None
    /\ th["a"].op = "wait_for_fence" /\ th["a"].pc = "sleep"
    /\ th["b"].op = "reset_fence" /\ locks["fence"] = "b"

(***************************************************************************)
(* PhysicalDevice::new, create_descriptor_pool,                            *)
(* create_descriptor_set_layout                                            *)
(***************************************************************************)

\* one size whatever the feature sets
max_buffer_size_of_any_family(gpu_family1_v2_or_v3) == 2 ^ 28

\* 1 << 30 if the device supports macOS_GPUFamily1_v2 or _v3, 1 << 28 otherwise
max_buffer_size(gpu_family1_v2_or_v3) ==
    IF gpu_family1_v2_or_v3 THEN 2 ^ 30 ELSE 2 ^ 28

\* Self::supports_any(device, ARGUMENT_BUFFER_SUPPORT) && false
argument_buffers(supported) == supported /\ FALSE

\* PhysicalDevice::new: probe is what supports_feature_set answers, with the
\* push_constants_buffer_id of Shared
PhysicalDevice_new(probe) ==
    [ private_caps |->
        ( "max_buffer_size" :> max_buffer_size(probe.gpu_family1_v2_or_v3) )
            @@ [ PrivateCapabilities(probe.is_mac, probe.resource_heaps)
                   EXCEPT !.argument_buffers = argument_buffers(probe.argument_buffers) ],
      push_constants_buffer_id |-> probe.push_constants_buffer_id ]

\* the pool is an argument buffer whatever the capability record says
create_descriptor_pool_of_argument_buffer(device, descriptor_ranges, total_size) ==
    [ status |-> "ok", kind |-> "ArgumentBuffer", total_size |-> total_size,
      offset |-> 0 ]

\* total_size is what the native argument encoder reports
create_descriptor_pool(device, descriptor_ranges, total_size) ==
    IF ~device.private_caps.argument_buffers
    THEN [ status |-> "ok", kind |-> "Emulated" ]
    ELSE IF \E i \in 1..Len(descriptor_ranges) :
               descriptor_ranges[i].ty \notin { "Sampler", "SampledImage",
                                                "UniformBuffer", "StorageBuffer" }
    THEN [ status |-> "unimplemented" ]
    ELSE [ status |-> "ok", kind |-> "ArgumentBuffer", total_size |-> total_size,
           offset |-> 0 ]

create_descriptor_set_layout(device, bindings) ==
    IF ~device.private_caps.argument_buffers
    THEN Emulated(bindings)
    ELSE ArgumentBuffer(UNION { bindings[i].stage_flags : i \in 1..Len(bindings) })

\* the device has not been probed yet
InitProbe ==
    /\ caps = None
    /\ pl_req = None /\ pl_res = None
    /\ ds_set = None /\ ds_req = None /\ ds_res = None
    /\ gp = None /\ mem = None /\ mm = None
    /\ flag = None /\ locks = None /\ th = None
    /\ rq \in [ kind : { "probe" }, is_mac : BOOLEAN, resource_heaps : BOOLEAN,
                argument_buffers : BOOLEAN, gpu_family1_v2_or_v3 : BOOLEAN,
                push_constants_buffer_id : PushConstantsBufferIds ]
    /\ rq_res = None

ProbeDevice ==
    /\ rq # None /\ rq.kind = "probe" /\ caps = None
    /\ caps' = PhysicalDevice_new(rq)
    /\ UNCHANGED <<layout_vars, descriptor_vars, gp, memory_vars, query_vars, sync_vars>>

\* ranges of any descriptor type, none to two of them
CreateDescriptorPool ==
    /\ rq # None /\ rq.kind = "probe" /\ caps # None /\ rq_res = None
    /\ \E descriptor_ranges \in
              SeqsUpTo([ ty : DescriptorTypes, count : 1..MaxCount ], 2),
          total_size \in { 0, 64 } :
         rq_res' = [ op |-> "create_descriptor_pool", ranges |-> descriptor_ranges,
                     res |-> create_descriptor_pool(caps, descriptor_ranges, total_size) ]
    /\ UNCHANGED <<caps, layout_vars, descriptor_vars, gp, memory_vars, rq, sync_vars>>

CreateDescriptorSetLayout ==
    /\ rq # None /\ rq.kind = "probe" /\ caps # None /\ rq_res = None
    /\ \E bindings \in { << >> } \cup { << b >> : b \in AllBindings }
                          \cup DescriptorSetLayouts :
         rq_res' = [ op |-> "create_descriptor_set_layout", bindings |-> bindings,
                     res |-> create_descriptor_set_layout(caps, bindings) ]
    /\ UNCHANGED <<caps, layout_vars, descriptor_vars, gp, memory_vars, rq, sync_vars>>

NextProbe == ProbeDevice \/ CreateDescriptorPool \/ CreateDescriptorSetLayout

SpecProbe == InitProbe /\ [][NextProbe]_vars

\* C21: a device that supports none of the optional feature sets is given
\* max_buffers_per_stage = 31 and argument_buffers = false, and on it
\* create_descriptor_pool returns the emulated pool and
\* create_descriptor_set_layout the emulated layout of the bindings given.
MinimalTierIsEmulated ==
    ( /\ rq # None /\ rq.kind = "probe" /\ caps # None
      /\ ~rq.resource_heaps /\ ~rq.argument_buffers /\ ~rq.gpu_family1_v2_or_v3 )
        => /\ caps.private_caps.max_buffers_per_stage = 31
           /\ caps.private_caps.argument_buffers = FALSE
           /\ ( rq_res # None /\ rq_res.op = "create_descriptor_pool" )
                => rq_res.res = [ status |-> "ok", kind |-> "Emulated" ]
           /\ ( rq_res # None /\ rq_res.op = "create_descriptor_set_layout" )
                => rq_res.res = [ kind |-> "Emulated", bindings |-> rq_res.bindings ]

\* a pool of two ranges, one of a type the argument-buffer path has no arm for
MinimalTierPoolWitness ==
    /\ rq # None /\ rq.kind = "probe" /\ caps # None
    /\ ~rq.resource_heaps /\ ~rq.argument_buffers /\ ~rq.gpu_family1_v2_or_v3
    /\ rq_res # None /\ rq_res.op = "create_descriptor_pool"
    /\ Len(rq_res.ranges) = 2 /\ rq_res.ranges[2].ty = "StorageImage"
    /\ rq_res.res.kind = "Emulated"

\* max_buffer_size of the same device outside the higher feature sets
LowerTierMaxBufferSize ==
    PhysicalDevice_new([ rq EXCEPT !.gpu_family1_v2_or_v3 = FALSE ])
        .private_caps.max_buffer_size

\* C22 as stated: the max_buffer_size of a device in the higher feature sets
\* is double that of a device outside them.
MaxBufferSizeDoubles ==
    ( rq # None /\ rq.kind = "probe" /\ caps # None /\ rq.gpu_family1_v2_or_v3 )
        => caps.private_caps.max_buffer_size = 2 * LowerTierMaxBufferSize

\* C22: max_buffer_size is one of two values, and that of a device in the
\* higher feature sets is four times that of a device outside them.
MaxBufferSizeQuadruples ==
    ( rq # None /\ rq.kind = "probe" /\ caps # None )
        => caps.private_caps.max_buffer_size
             = IF rq.gpu_family1_v2_or_v3 THEN 4 * LowerTierMaxBufferSize
               ELSE LowerTierMaxBufferSize

HigherTierProbedWitness ==
    /\ rq # None /\ rq.kind = "probe" /\ caps # None
    /\ rq.gpu_family1_v2_or_v3
    /\ caps.private_caps.max_buffer_size = 2 ^ 30

(***************************************************************************)
(* Shaders of create_graphics_pipeline and create_compute_pipeline         *)
(***************************************************************************)

\* C23: when a shader of create_graphics_pipeline or create_compute_pipeline
\* fails to load (its raw module does not compile, or its entry point is not
\* found), the call returns a typed shader error with a message: it does not
\* panic, does not return the untyped error, and returns no pipeline.
ShaderLoadFailureIsTypedError ==
    ( /\ gp # None /\ gp.pc = "done"
      /\ \E i \in 1..Len(gp.loads) : gp.loads[i].res # "ok" )
        => gp.status \in { "Err(Shader(CompilationFailed))",
                           "Err(Shader(MissingEntryPoint))",
                           "Err(Shader(InterfaceMismatch))" }

\* C24: create_graphics_pipeline of a description with a hull, domain or
\* geometry shader returns the UnsupportedStage error of such a stage of the
\* description, whatever its vertex and fragment shaders are, and has loaded no
\* shader.
UnsupportedStageRefusedBeforeLoading ==
    ( /\ gp # None /\ gp.call = "create_graphics_pipeline"
      /\ gp.desc.hull \/ gp.desc.domain \/ gp.desc.geometry )
        => /\ gp.pc = "done"
           /\ \/ gp.desc.hull /\ gp.status = "Err(Shader(UnsupportedStage(Hull)))"
              \/ gp.desc.domain /\ gp.status = "Err(Shader(UnsupportedStage(Domain)))"
              \/ gp.desc.geometry /\ gp.status = "Err(Shader(UnsupportedStage(Geometry)))"
           /\ gp.loads = << >>

(***************************************************************************)
(* map_format of the dx11 backend                                          *)
(***************************************************************************)

Some(value) == [ kind |-> "Some", value |-> value ]

\* the match on format.0 (SurfaceType) and, inside, on format.1 (ChannelType)
map_format(surface, channel) ==
    CASE surface \in { "R3_G3_B2", "R4_G4", "R4_G4_B4_A4", "R5_G5_B5_A1", "R5_G6_B5" }
              -> None
      [] surface = "R8" ->
          CASE
                  channel = "Int" -> Some("R8_SINT")
               [] channel = "Uint" -> Some("R8_UINT")
               [] channel = "Inorm" -> Some("R8_SNORM")
               [] channel = "Unorm" -> Some("R8_UNORM")
               [] OTHER -> None
      [] surface = "R8_G8" ->
          CASE
                  channel = "Int" -> Some("R8G8_SINT")
               [] channel = "Uint" -> Some("R8G8_UINT")
               [] channel = "Inorm" -> Some("R8G8_SNORM")
               [] channel = "Unorm" -> Some("R8G8_UNORM")
               [] OTHER -> None
      [] surface = "R8_G8_B8" -> None
      [] surface = "R8_G8_B8_A8" ->
          CASE
                  channel = "Int" -> Some("R8G8B8A8_SINT")
               [] channel = "Uint" -> Some("R8G8B8A8_UINT")
               [] channel = "Inorm" -> Some("R8G8B8A8_SNORM")
               [] channel = "Unorm" -> Some("R8G8B8A8_UNORM")
               [] channel = "Srgb" -> Some("R8G8B8A8_UNORM_SRGB")
               [] OTHER -> None
      [] surface = "R10_G10_B10_A2" ->
          CASE
                  channel = "Uint" -> Some("R10G10B10A2_UINT")
               [] channel = "Unorm" -> Some("R10G10B10A2_UNORM")
               [] OTHER -> None
      [] surface = "R11_G11_B10" ->
          CASE
                  channel = "Float" -> Some("R11G11B10_FLOAT")
               [] OTHER -> None
      [] surface = "R16" ->
          CASE
                  channel = "Int" -> Some("R16_SINT")
               [] channel = "Uint" -> Some("R16_UINT")
               [] channel = "Inorm" -> Some("R16_SNORM")
               [] channel = "Unorm" -> Some("R16_UNORM")
               [] channel = "Float" -> Some("R16_FLOAT")
               [] OTHER -> None
      [] surface = "R16_G16" ->
          CASE
                  channel = "Int" -> Some("R16G16_SINT")
               [] channel = "Uint" -> Some("R16G16_UINT")
               [] channel = "Inorm" -> Some("R16G16_SNORM")
               [] channel = "Unorm" -> Some("R16G16_UNORM")
               [] channel = "Float" -> Some("R16G16_FLOAT")
               [] OTHER -> None
      [] surface = "R16_G16_B16" -> None
      [] surface = "R16_G16_B16_A16" ->
          CASE
                  channel = "Int" -> Some("R16G16B16A16_SINT")
               [] channel = "Uint" -> Some("R16G16B16A16_UINT")
               [] channel = "Inorm" -> Some("R16G16B16A16_SNORM")
               [] channel = "Unorm" -> Some("R16G16B16A16_UNORM")
               [] channel = "Float" -> Some("R16G16B16A16_FLOAT")
               [] OTHER -> None
      [] surface = "R32" ->
          CASE
                  channel = "Int" -> Some("R32_SINT")
               [] channel = "Uint" -> Some("R32_UINT")
               [] channel = "Float" -> Some("R32_FLOAT")
               [] OTHER -> None
      [] surface = "R32_G32" ->
          CASE
                  channel = "Int" -> Some("R32G32_SINT")
               [] channel = "Uint" -> Some("R32G32_UINT")
               [] channel = "Float" -> Some("R32G32_FLOAT")
               [] OTHER -> None
      [] surface = "R32_G32_B32" ->
          CASE
                  channel = "Int" -> Some("R32G32B32_SINT")
               [] channel = "Uint" -> Some("R32G32B32_UINT")
               [] channel = "Float" -> Some("R32G32B32_FLOAT")
               [] OTHER -> None
      [] surface = "R32_G32_B32_A32" ->
          CASE
                  channel = "Int" -> Some("R32G32B32A32_SINT")
               [] channel = "Uint" -> Some("R32G32B32A32_UINT")
               [] channel = "Float" -> Some("R32G32B32A32_FLOAT")
               [] OTHER -> None
      [] surface = "D16" -> Some("D16_UNORM")
      [] surface = "D24" \/ surface = "D24_S8" -> Some("D24_UNORM_S8_UINT")
      [] surface = "D32" -> Some("D32_FLOAT")

\* Format(SurfaceType, ChannelType): every pair
InitFormat ==
    /\ caps = None
    /\ pl_req = None /\ pl_res = None
    /\ ds_set = None /\ ds_req = None /\ ds_res = None
    /\ gp = None /\ mem = None /\ mm = None
    /\ flag = None /\ locks = None /\ th = None
    /\ rq \in [ kind : { "format" },
                surface : { "R3_G3_B2", "R4_G4", "R4_G4_B4_A4", "R5_G5_B5_A1", "R5_G6_B5",
                            "R8", "R8_G8", "R8_G8_B8", "R8_G8_B8_A8", "R10_G10_B10_A2",
                            "R11_G11_B10", "R16", "R16_G16", "R16_G16_B16",
                            "R16_G16_B16_A16", "R32", "R32_G32", "R32_G32_B32",
                            "R32_G32_B32_A32", "D16", "D24", "D24_S8", "D32" },
                channel : { "Int", "Uint", "Inorm", "Unorm", "Float", "Srgb" } ]
    /\ rq_res = None

MapFormat ==
    /\ rq # None /\ rq.kind = "format" /\ rq_res = None
    /\ rq_res' = [ res |-> map_format(rq.surface, rq.channel) ]
    /\ UNCHANGED <<caps, layout_vars, descriptor_vars, gp, memory_vars, rq, sync_vars>>

SpecFormat == InitFormat /\ [][MapFormat]_vars

\* C25: two distinct (surface type, channel type) pairs that map_format
\* accepts get different native formats, unless their surface types are D24 and
\* D24_S8.
MapFormatInjective ==
    ( rq # None /\ rq.kind = "format" /\ rq_res # None /\ rq_res.res # None )
        => \A surface \in { "R8", "R8_G8", "R8_G8_B8_A8", "R10_G10_B10_A2",
                            "R11_G11_B10", "R16", "R16_G16", "R16_G16_B16_A16", "R32",
                            "R32_G32", "R32_G32_B32", "R32_G32_B32_A32", "D16", "D24",
                            "D24_S8", "D32" },
              channel \in { "Int", "Uint", "Inorm", "Unorm", "Float", "Srgb" } :
              ( /\ << surface, channel >> # << rq.surface, rq.channel >>
                /\ map_format(surface, channel) = rq_res.res )
                  => { surface, rq.surface } = { "D24", "D24_S8" }


(***************************************************************************)
(* The arithmetic of the vertex attribute remap.                           *)
(***************************************************************************)

(* C26: for every vertex attribute whose binding has a vertex buffer, with *)
(* any element offset, element size and stride (stride 0 included), the    *)
(* remap step completes without an arithmetic fault and its cut and base   *)
(* offsets add up to the element offset, the base offset is 0 when the     *)
(* offset is below the stride, the cut offset is below a positive stride,  *)
(* and an element at or past the stride that would straddle a stride       *)
(* boundary gets cut offset 0.                                             *)
RemapArithmeticNeverFaults ==
    (gp # None /\ gp.last # None) =>
        LET offset == gp.last.attribute.element.offset
            size == gp.last.attribute.element.size
            stride == gp.last.stride
            o == gp.last.offsets
        IN  /\ o # None
            /\ o.cut_offset + o.base_offset = offset
            /\ (offset < stride => o.base_offset = 0)
            /\ (stride > 0 => o.cut_offset < stride)
            /\ (stride > 0 /\ offset >= stride /\ (offset % stride) + size > stride
                    => o.cut_offset = 0)


\* the native buffer indices of the vertex buffer map
NativeIndices == { gp.vertex_buffer_map[key].binding : key \in DOMAIN gp.vertex_buffer_map }

BindStaysInsideBlock ==
    ( /\ mm # None /\ mm.op = "bind_buffer_memory"
      /\ mem[mm.memory].memory.heap.kind = "Public" )
        => \/ mm.res.status # "Ok"
           \/ /\ mm.res.range.start = mm.offset
              /\ mm.res.range.end = mm.offset + mm.buffer.size
              /\ mm.res.range.end <= mem[mm.memory].memory.size


(***************************************************************************)
(* The order in which the calls take the mutexes.                          *)
(***************************************************************************)

\* the mutex the thread is about to take, "none" if its next step takes none
Wants(t) ==
    CASE th[t].pc = "lock_fence" -> "fence"
      [] th[t].pc \in { "make", "release" } -> "queue_pool"
      [] th[t].pc = "lock_aux_queue" -> "aux_queue"
      [] th[t].pc \in { "make_command_buffer", "lock_device", "load_shader" } -> "device"
      [] OTHER -> "none"

(* C29: under any interleaving of the calls no thread takes a mutex it     *)
(* holds, no thread takes the queue pool's mutex while it holds the        *)
(* device's (the only nesting is the queue pool's, then the device's,      *)
(* inside invalidate_mapped_memory_ranges, and create_graphics_pipeline    *)
(* has let go of the device's mutex after loading its shaders when it      *)
(* takes it for the rest of the call), no two threads wait for each        *)
(* other's mutex, and every call returns.                                  *)
LocksNeverDeadlock ==
    /\ [](th # None =>
            \A t \in Threads :
                /\ Wants(t) \notin Held(t)
                /\ "device" \in Held(t) => Wants(t) = "none"
                /\ \/ Cardinality(Held(t)) <= 1
                   \/ /\ Held(t) = { "queue_pool", "device" }
                      /\ th[t].op = "invalidate_mapped_memory_ranges"
                /\ ( th[t].op = "create_graphics_pipeline" /\ th[t].pc = "load_shader" )
                       => Held(t) = {}
                /\ \A u \in Threads \ {t} :
                       ~( Wants(t) \in Held(u) /\ Wants(u) \in Held(t) ))
    /\ \A t \in Threads :
          ( th # None /\ th[t].pc # "idle" ) ~> ( th[t].pc = "idle" )

\* one thread inside make_command_buffer with the queue pool's and the device's
\* mutex while the other has loaded its two shaders and waits for the device
NestedLocksWitness ==
    /\ th # None
    /\ th["a"].op = "invalidate_mapped_memory_ranges"
    /\ Held("a") = { "queue_pool", "device" }
    /\ th["b"].op = "create_graphics_pipeline" /\ th["b"].pc = "load_shader"
    /\ th["b"].shaders = 0 /\ th["b"].calls = 2
    /\ th["a"].calls = 2


(***************************************************************************)
(* render: the pipeline components ShaderResource, UnorderedAccess and     *)
(* Sampler (pso/mod.rs)                                                    *)
(***************************************************************************)

\* the slots of a set of the RawDataSet are 0..MaxSlot
MaxSlot == 1

ComponentTypes == { "ShaderResource", "UnorderedAccess", "Sampler" }

\* the set of the RawDataSet a component of the type binds to
SetOf(ty) ==
    CASE ty = "ShaderResource" -> "resource_views"
      [] ty = "UnorderedAccess" -> "unordered_views"
      [] ty = "Sampler" -> "samplers"

\* the slot is recorded whatever the name
link_resource_view_of_any_name(self, var, init) ==
    [ self |-> [ self EXCEPT !.slot = Some(var.slot) ], ret |-> Some("Ok(())") ]

\* ShaderResource::link_resource_view
link_resource_view(self, var, init) ==
    IF init = var.name
    THEN [ self |-> [ self EXCEPT !.slot = Some(var.slot) ], ret |-> Some("Ok(())") ]
    ELSE [ self |-> self, ret |-> None ]

\* UnorderedAccess::link_unordered_view
link_unordered_view(self, var, init) ==
    IF init = var.name
    THEN [ self |-> [ self EXCEPT !.slot = Some(var.slot) ], ret |-> Some("Ok(())") ]
    ELSE [ self |-> self, ret |-> None ]

\* Sampler::link_sampler
link_sampler(self, var, init) ==
    IF init = var.name
    THEN [ self |-> [ self EXCEPT !.slot = Some(var.slot) ], ret |-> Some("()") ]
    ELSE [ self |-> self, ret |-> None ]

\* self.0.is_some()
is_active(self) == self.slot # None

\* bind_to of the three components: if let Some(slot) = self.0, the entry at
\* the slot of the component's set becomes Some(data)
bind_to(self, out, data) ==
    IF self.slot # None
    THEN [ out EXCEPT ![SetOf(self.ty)][self.slot.value] = Some(data) ]
    ELSE out

\* RawDataSet::new() and a component fresh from new()
InitLink ==
    /\ caps = None /\ pl_req = None /\ pl_res = None
    /\ ds_set = None /\ ds_req = None /\ ds_res = None
    /\ gp = None /\ mem = None /\ mm = None
    /\ flag = None /\ locks = None /\ th = None
    /\ rq \in { [ kind |-> "link", self |-> [ ty |-> ty, slot |-> None ],
                  recorded |-> FALSE,
                  out |-> [ set \in { "resource_views", "unordered_views", "samplers" }
                              |-> [ slot \in 0..MaxSlot |-> None ] ] ] :
                ty \in ComponentTypes }
    /\ rq_res = None

\* the program's variables of one kind are offered to the component: its own
\* link method answers for the kind of its type, the default of DataLink, which
\* is None and no change, for the others
LinkVar ==
    /\ rq # None /\ rq.kind = "link"
    /\ \E var_kind \in { "resource_view", "unordered_view", "sampler" },
          var \in [ name : { "t_Color", "t_Normal" }, slot : 0..MaxSlot ],
          init \in { "t_Color", "t_Normal" } :
         LET linked ==
                 CASE var_kind = "resource_view" /\ rq.self.ty = "ShaderResource"
                          -> link_resource_view(rq.self, var, init)
                   [] var_kind = "unordered_view" /\ rq.self.ty = "UnorderedAccess"
                          -> link_unordered_view(rq.self, var, init)
                   [] var_kind = "sampler" /\ rq.self.ty = "Sampler"
                          -> link_sampler(rq.self, var, init)
                   [] OTHER -> [ self |-> rq.self, ret |-> None ]
         IN  /\ rq' = [ rq EXCEPT !.self = linked.self,
                                  !.recorded = @ \/ linked.ret # None ]
             /\ rq_res' = [ op |-> "link", var_kind |-> var_kind, var |-> var,
                            init |-> init, ret |-> linked.ret, before |-> rq ]
    /\ UNCHANGED <<caps, layout_vars, descriptor_vars, gp, memory_vars, sync_vars>>

\* bind_to with the handle of a view or sampler
BindTo ==
    /\ rq # None /\ rq.kind = "link"
    /\ \E data \in { "handle 1", "handle 2" } :
         /\ rq' = [ rq EXCEPT !.out = bind_to(rq.self, rq.out, data) ]
         /\ rq_res' = [ op |-> "bind_to", data |-> data, before |-> rq ]
    /\ UNCHANGED <<caps, layout_vars, descriptor_vars, gp, memory_vars, sync_vars>>

NextLink == LinkVar \/ BindTo

SpecLink == InitLink /\ [][NextLink]_vars

(* C30: link_resource_view, link_unordered_view and link_sampler of the    *)
(* ShaderResource, UnorderedAccess and Sampler components record the       *)
(* variable's slot and report a match only when the init name equals the   *)
(* variable's name, and leave the component unchanged otherwise; is_active *)
(* is true exactly when a slot has been recorded; bind_to on a component   *)
(* with no slot leaves the RawDataSet unchanged, and on a linked component *)
(* overwrites only the entry at the recorded slot of its own set.          *)
LinkRecordsSlotBindWritesIt ==
    (rq # None /\ rq.kind = "link") =>
        /\ is_active(rq.self) <=> rq.recorded
        /\ (rq_res # None /\ rq_res.op = "link") =>
              LET own == rq_res.var_kind =
                             CASE rq.self.ty = "ShaderResource" -> "resource_view"
                               [] rq.self.ty = "UnorderedAccess" -> "unordered_view"
                               [] rq.self.ty = "Sampler" -> "sampler"
              IN  /\ rq.out = rq_res.before.out
                  /\ IF own /\ rq_res.init = rq_res.var.name
                     THEN /\ rq_res.ret # None
                          /\ rq.self = [ rq_res.before.self EXCEPT
                                           !.slot = Some(rq_res.var.slot) ]
                     ELSE /\ rq_res.ret = None
                          /\ rq.self = rq_res.before.self
        /\ (rq_res # None /\ rq_res.op = "bind_to") =>
              /\ rq.self = rq_res.before.self
              /\ IF rq.self.slot = None
                 THEN rq.out = rq_res.before.out
                 ELSE \A set \in DOMAIN rq.out : \A slot \in DOMAIN rq.out[set] :
                          rq.out[set][slot] =
                              IF set = SetOf(rq.self.ty) /\ slot = rq.self.slot.value
                              THEN Some(rq_res.data)
                              ELSE rq_res.before.out[set][slot]

\* a shader resource that was linked to slot 1 after a name that did not match,
\* and bound over an earlier handle
LinkedAndBoundWitness ==
    /\ rq # None /\ rq.kind = "link" /\ rq_res # None
    /\ rq.self = [ ty |-> "ShaderResource", slot |-> Some(1) ]
    /\ rq_res.op = "bind_to" /\ rq_res.data = "handle 2"
    /\ rq_res.before.out["resource_views"][1] = Some("handle 1")
    /\ rq.out["resource_views"][0] = None

====
